---- MODULE Spec2Model ----
(***************************************************************************)
(* A model of zarf's package linter: the Validator that accumulates        *)
(* findings (src/pkg/packager/lint/validator.go), the three iterations of  *)
(* the component linter kept in src/pkg/packager/lint/lint.go, the         *)
(* composer entry point and the creator's lint gate.                       *)
(*                                                                         *)
(* Strings are sequences of tokens (a token is a TLA+ string); the empty   *)
(* string is <<>>.  A template placeholder ###ZARF_PKG_TMPL_KEY### is the  *)
(* three tokens <<"###ZARF_PKG_TMPL_", "KEY", "###">>.                     *)
(***************************************************************************)
EXTENDS Integers, Sequences, FiniteSets, TLC

VARIABLES
    ver,        \* which iteration of lint.go runs: 1, 2 or 3
    pkg,        \* the package definition read from zarf.yaml
    world,      \* the packages reachable by import: location -> package
    setVars,    \* createOpts.SetVariables: key -> value
    pc,         \* position of the running operation
    idx,        \* loop index over pkg.components (1-based)
    findings,   \* the findings accumulated so far
    fatal,      \* the fatal error returned, <<>> when none
    linted,     \* indices of the top-level components whose node loop ran
    result,     \* lintPackage's returned error, <<>> when nil
    calls,      \* number of addWarning/addError calls made (Validator API)
    bst,        \* the import-chain builder's state
    out         \* the value returned by the last pure function applied

vars == <<ver, pkg, world, setVars, pc, idx, findings, fatal, linted, result, calls, bst, out>>

-----------------------------------------------------------------------------
(* Bounds of the model *)

MaxCalls == 3
MaxComponents == 2
MaxFindings == 3

-----------------------------------------------------------------------------
(* Severity categories *)

CategoryUnset == 0
CategoryError == 1
CategoryWarning == 2

EmptyStr == <<>>

-----------------------------------------------------------------------------
(* helpers.Unique as called by addWarning/addError: keeps the first          *)
(* occurrence of every element, in order.                                    *)

RECURSIVE UniqueLast(_)
UniqueLast(s) ==
    IF s = <<>> THEN <<>>
    ELSE LET h == Head(s)
             t == Tail(s)
         IN IF \E k \in 1..Len(t) : t[k] = h
            THEN UniqueLast(t)
            ELSE <<h>> \o UniqueLast(t)

UniqueNone(s) == s

RECURSIVE UniqueFrom(_, _)
UniqueFrom(s, seen) ==
    IF s = <<>> THEN <<>>
    ELSE IF \E k \in 1..Len(seen) : seen[k] = Head(s)
         THEN UniqueFrom(Tail(s), seen)
         ELSE <<Head(s)>> \o UniqueFrom(Tail(s), Append(seen, Head(s)))

Unique(s) == UniqueFrom(s, <<>>)

(* Validator.hasSeverity: some finding has category <= the given category *)
hasSeverityStrict(fs, category) ==
    \E k \in 1..Len(fs) : fs[k].category < category

hasSeverity(fs, category) ==
    \E k \in 1..Len(fs) : fs[k].category <= category

(* Validator.HasErrors *)
HasErrors(fs) == hasSeverity(fs, CategoryError)

(* Validator.IsSuccess *)
IsSuccess(fs) == \A k \in 1..Len(fs) : fs[k].category # CategoryError

addWarningKeepCategory(fs, vm) == Unique(Append(fs, vm))

(* Validator.addWarning / Validator.addError: the new findings list *)
addWarning(fs, vm) ==
    Unique(Append(fs, [vm EXCEPT !.category = CategoryWarning]))

addError(fs, vm) ==
    Unique(Append(fs, [vm EXCEPT !.category = CategoryError]))

(* PrintValidationTable's mapOfFindingsByPath: the findings at or above the  *)
(* severity, grouped by packageRelPath, each group in list order.            *)
AtOrBelowSeverity(f, severity) == f.category >= severity

AtOrAboveSeverity(f, severity) == f.category <= severity

mapOfFindingsByPath(fs, severity) ==
    LET kept == SelectSeq(fs, LAMBDA f : AtOrAboveSeverity(f, severity))
        paths == {kept[k].packageRelPath : k \in 1..Len(kept)}
    IN [p \in paths |-> SelectSeq(kept, LAMBDA f : f.packageRelPath = p)]

(* groupFindingsByPath(findings, severity, packageName): an empty package    *)
(* name is backfilled with the top-level package's name and an empty path    *)
(* with ".", then the findings are grouped as above.                         *)
Backfill(f, packageName) ==
    [f EXCEPT !.packageName = IF @ = EmptyStr THEN packageName ELSE @,
              !.packageRelPath = IF @ = EmptyStr THEN <<".">> ELSE @]

groupFindingsByPath(fs, severity, packageName) ==
    mapOfFindingsByPath([k \in 1..Len(fs) |-> Backfill(fs[k], packageName)], severity)

-----------------------------------------------------------------------------
(* Strings *)

ZarfPackageTemplatePrefix == "###ZARF_PKG_TMPL_"
ZarfPackageVariablePrefix == "###ZARF_PKG_VAR_"
TemplateSuffix == "###"

(* strings.Contains(s, token) *)
Contains(s, token) == \E k \in 1..Len(s) : s[k] = token

(* fmt.Sprintf("%d", n) for the indices the model reaches *)
Dec(n) == <<"0", "1", "2", "3", "4", "5", "6", "7", "8", "9">>[n + 1]

RECURSIVE FlatMap(_, _, _)
FlatMap(F(_), j, n) == IF j > n THEN <<>> ELSE F(j) \o FlatMap(F, j + 1, n)

RECURSIVE Fold(_, _, _)
Fold(G(_, _), acc, s) == IF s = <<>> THEN acc ELSE Fold(G, G(acc, Head(s)), Tail(s))

-----------------------------------------------------------------------------
(* transform.ParseImageRef on token strings:                                 *)
(*   ref ::= name ("/" name)* [":" tag] ["@" digest]                         *)

Separators == {":", "/", "@", TemplateSuffix, ZarfPackageTemplatePrefix, ZarfPackageVariablePrefix}

IsDigest(t) == t \in {"sha256:3fbc"}

IsIdent(t) == t \notin Separators /\ ~IsDigest(t)

ParseFail == [ok |-> FALSE, rest |-> <<>>]

RECURSIVE ParseName(_)
ParseName(s) ==
    IF s = <<>> \/ ~IsIdent(s[1]) THEN ParseFail
    ELSE IF Len(s) >= 2 /\ s[2] = "/" THEN ParseName(SubSeq(s, 3, Len(s)))
    ELSE [ok |-> TRUE, rest |-> Tail(s)]

ParseTag(s) ==
    IF Len(s) >= 1 /\ s[1] = ":"
    THEN IF Len(s) >= 2 /\ IsIdent(s[2]) THEN [ok |-> TRUE, rest |-> SubSeq(s, 3, Len(s))]
         ELSE ParseFail
    ELSE [ok |-> TRUE, rest |-> s]

ParseImageRef(image) ==
    LET n == ParseName(image)
        t == IF n.ok THEN ParseTag(n.rest) ELSE ParseFail
    IN IF ~t.ok THEN [ok |-> FALSE, digest |-> EmptyStr]
       ELSE IF t.rest = <<>> THEN [ok |-> TRUE, digest |-> EmptyStr]
       ELSE IF Len(t.rest) = 2 /\ t.rest[1] = "@" /\ IsDigest(t.rest[2])
            THEN [ok |-> TRUE, digest |-> <<t.rest[2]>>]
       ELSE [ok |-> FALSE, digest |-> EmptyStr]

InvalidReferenceFormat == <<"invalid reference format">>

isPinnedImageNoMarker(image) ==
    LET ref == ParseImageRef(image)
    IN IF ~ref.ok THEN [pinned |-> FALSE, err |-> InvalidReferenceFormat]
       ELSE [pinned |-> ref.digest # EmptyStr, err |-> EmptyStr]

(* isPinnedImage: the pair (pinned, err); err = <<>> is nil *)
isPinnedImage(image) ==
    LET ref == ParseImageRef(image)
    IN IF ~ref.ok
       THEN IF Contains(image, ZarfPackageTemplatePrefix) \/ Contains(image, ZarfPackageVariablePrefix)
            THEN [pinned |-> TRUE, err |-> EmptyStr]
            ELSE [pinned |-> FALSE, err |-> InvalidReferenceFormat]
       ELSE [pinned |-> ref.digest # EmptyStr, err |-> EmptyStr]

isPinnedRepoNever(repo) == FALSE

(* isPinnedRepo *)
isPinnedRepo(repo) == Contains(repo, "@")

(* helpers.IsURL: the string starts with a scheme and names a host *)
IsURL(source) == Len(source) >= 2 /\ source[1] \in {"http://", "https://"}

-----------------------------------------------------------------------------
(* Findings.  types.PackageError and validatorMessage have the same six      *)
(* fields: YqPath/yqPath, Description/description, Item/item,                *)
(* PackagePathOverride/packageRelPath, PackageNameOverride/packageName,      *)
(* Category/category.                                                        *)

Finding(yq, d, item, path, name, c) ==
    [yqPath |-> yq, description |-> d, item |-> item,
     packageRelPath |-> path, packageName |-> name, category |-> c]

ReposYqPath(i, j) == <<".components.[", Dec(i), "].repos.[", Dec(j), "]">>
ImagesYqPath(i, j) == <<".components.[", Dec(i), "].images.[", Dec(j), "]">>
FilesYqPath(i, j) == <<".components.[", Dec(i), "].files.[", Dec(j), "]">>
ImportPathYqPath(i) == <<".components.[", Dec(i), "].import.path">>
ImportURLYqPath(i) == <<".components.[", Dec(i), "].import.url">>

UnpinnedRepository == <<"Unpinned repository">>
ImageNotPinned == <<"Image not pinned with digest">>
FailedToParseImage == <<"Failed to parse image reference">>
InvalidImageReference == <<"Invalid image reference">>
NoShasum == <<"No shasum for remote file">>
NoVarsInImportPath == <<"Zarf does not evaluate variables at component.x.import.path">>
NoVarsInImportURL == <<"Zarf does not evaluate variables at component.x.import.url">>

-----------------------------------------------------------------------------
(* lint.go, first iteration (lines 1-253): checks return []PackageError      *)

checkForUnpinnedReposV1(c, i) ==
    LET One(j) == IF ~isPinnedRepo(c.repos[j])
                  THEN <<Finding(ReposYqPath(i, j - 1), UnpinnedRepository, c.repos[j],
                                 EmptyStr, EmptyStr, CategoryWarning)>>
                  ELSE <<>>
    IN FlatMap(One, 1, Len(c.repos))

checkForUnpinnedImagesV1(c, i) ==
    LET One(j) ==
            LET r == isPinnedImage(c.images[j])
            IN IF r.err # EmptyStr
               THEN <<Finding(ImagesYqPath(i, j - 1), FailedToParseImage, c.images[j],
                              EmptyStr, EmptyStr, CategoryWarning)>>
               ELSE IF ~r.pinned
               THEN <<Finding(ImagesYqPath(i, j - 1), ImageNotPinned, c.images[j],
                              EmptyStr, EmptyStr, CategoryWarning)>>
               ELSE <<>>
    IN FlatMap(One, 1, Len(c.images))

checkForUnpinnedFilesV1(c, i) ==
    LET One(j) == IF c.files[j].shasum = EmptyStr /\ IsURL(c.files[j].source)
                  THEN <<Finding(FilesYqPath(i, j - 1), NoShasum, c.files[j].source,
                                 EmptyStr, EmptyStr, CategoryWarning)>>
                  ELSE <<>>
    IN FlatMap(One, 1, Len(c.files))

checkComponentV1FilesFirst(c, i) ==
    checkForUnpinnedFilesV1(c, i) \o checkForUnpinnedReposV1(c, i) \o checkForUnpinnedImagesV1(c, i)

checkComponentV1(c, i) ==
    checkForUnpinnedReposV1(c, i) \o checkForUnpinnedImagesV1(c, i) \o checkForUnpinnedFilesV1(c, i)

checkForVarInComponentImportV1(c, i) ==
    (IF Contains(c.import.path, ZarfPackageTemplatePrefix)
     THEN <<Finding(ImportPathYqPath(i), NoVarsInImportPath, c.import.path,
                    EmptyStr, EmptyStr, CategoryWarning)>>
     ELSE <<>>)
    \o
    (IF Contains(c.import.url, ZarfPackageTemplatePrefix)
     THEN <<Finding(ImportURLYqPath(i), NoVarsInImportURL, c.import.url,
                    EmptyStr, EmptyStr, CategoryWarning)>>
     ELSE <<>>)

-----------------------------------------------------------------------------
(* lint.go, second iteration (lines 255-553): checks add to the Validator.   *)
(* Each operator takes the findings list and returns the new one.            *)

NodeMessage(node, yq, d, item) ==
    Finding(yq, d, item, node.relativeToHead, node.originalPackageName, CategoryUnset)

checkForUnpinnedReposV2(fs, node) ==
    LET c == node.component
        One(acc, j) == IF ~isPinnedRepo(c.repos[j])
                       THEN addWarning(acc, NodeMessage(node, ReposYqPath(node.index, j - 1),
                                                        UnpinnedRepository, c.repos[j]))
                       ELSE acc
    IN Fold(One, fs, [j \in 1..Len(c.repos) |-> j])

checkForUnpinnedImagesV2(fs, node) ==
    LET c == node.component
        One(acc, j) ==
            LET r == isPinnedImage(c.images[j])
            IN IF r.err # EmptyStr
               THEN addError(acc, NodeMessage(node, ImagesYqPath(node.index, j - 1),
                                              InvalidImageReference, c.images[j]))
               ELSE IF ~r.pinned
               THEN addWarning(acc, NodeMessage(node, ImagesYqPath(node.index, j - 1),
                                                ImageNotPinned, c.images[j]))
               ELSE acc
    IN Fold(One, fs, [j \in 1..Len(c.images) |-> j])

checkForUnpinnedFilesV2(fs, node) ==
    LET c == node.component
        One(acc, j) == IF c.files[j].shasum = EmptyStr /\ IsURL(c.files[j].source)
                       THEN addWarning(acc, NodeMessage(node, FilesYqPath(node.index, j - 1),
                                                        NoShasum, c.files[j].source))
                       ELSE acc
    IN Fold(One, fs, [j \in 1..Len(c.files) |-> j])

lintComponentV2(fs, node) ==
    checkForUnpinnedFilesV2(checkForUnpinnedImagesV2(checkForUnpinnedReposV2(fs, node), node), node)

checkForVarInComponentImportV2(fs, node) ==
    LET c == node.component
        a == IF Contains(c.import.path, ZarfPackageTemplatePrefix)
             THEN addWarning(fs, NodeMessage(node, ImportPathYqPath(node.index),
                                             NoVarsInImportPath, c.import.path))
             ELSE fs
    IN IF Contains(c.import.url, ZarfPackageTemplatePrefix)
       THEN addWarning(a, NodeMessage(node, ImportURLYqPath(node.index),
                                      NoVarsInImportURL, c.import.url))
       ELSE a

-----------------------------------------------------------------------------
(* lint.go, third iteration (lines 555-815): checks return []PackageError    *)
(* carrying the node's provenance.                                           *)

checkForUnpinnedReposV3(node) ==
    LET c == node.component
        One(j) == IF ~isPinnedRepo(c.repos[j])
                  THEN <<Finding(ReposYqPath(node.index, j - 1), UnpinnedRepository, c.repos[j],
                                 node.relativeToHead, node.originalPackageName, CategoryWarning)>>
                  ELSE <<>>
    IN FlatMap(One, 1, Len(c.repos))

checkForUnpinnedImagesV3(node) ==
    LET c == node.component
        One(j) ==
            LET r == isPinnedImage(c.images[j])
            IN IF r.err # EmptyStr
               THEN <<Finding(ImagesYqPath(node.index, j - 1), InvalidImageReference, c.images[j],
                              node.relativeToHead, node.originalPackageName, CategoryError)>>
               ELSE IF ~r.pinned
               THEN <<Finding(ImagesYqPath(node.index, j - 1), ImageNotPinned, c.images[j],
                              node.relativeToHead, node.originalPackageName, CategoryWarning)>>
               ELSE <<>>
    IN FlatMap(One, 1, Len(c.images))

checkForUnpinnedFilesV3(node) ==
    LET c == node.component
        One(j) == IF c.files[j].shasum = EmptyStr /\ IsURL(c.files[j].source)
                  THEN <<Finding(FilesYqPath(node.index, j - 1), NoShasum, c.files[j].source,
                                 node.relativeToHead, node.originalPackageName, CategoryUnset)>>
                  ELSE <<>>
    IN FlatMap(One, 1, Len(c.files))

lintComponentV3(node) ==
    checkForUnpinnedReposV3(node) \o checkForUnpinnedImagesV3(node) \o checkForUnpinnedFilesV3(node)

checkForVarInComponentImportV3(node) ==
    LET c == node.component
    IN (IF Contains(c.import.path, ZarfPackageTemplatePrefix)
        THEN <<Finding(ImportPathYqPath(node.index), NoVarsInImportPath, c.import.path,
                       node.relativeToHead, node.originalPackageName, CategoryUnset)>>
        ELSE <<>>)
       \o
       (IF Contains(c.import.url, ZarfPackageTemplatePrefix)
        THEN <<Finding(ImportURLYqPath(node.index), NoVarsInImportURL, c.import.url,
                       node.relativeToHead, node.originalPackageName, CategoryUnset)>>
        ELSE <<>>)

-----------------------------------------------------------------------------
(* Templates: utils.FindYamlTemplates and utils.ReloadYamlTemplate           *)

ComponentStrings(c) ==
    <<c.name, c.import.path, c.import.url>> \o c.images \o c.repos
        \o [j \in 1..Len(c.files) |-> c.files[j].source]

KeysIn(s, prefix) ==
    {s[k + 1] : k \in {j \in 1..(Len(s) - 2) : s[j] = prefix /\ s[j + 2] = TemplateSuffix}}

(* the keys KEY for which prefix KEY ### occurs in the component *)
FindYamlTemplates(c, prefix) ==
    LET strs == ComponentStrings(c)
    IN UNION {KeysIn(strs[k], prefix) : k \in 1..Len(strs)}

(* a template map is a function from <<prefix, key>> to the value *)
RECURSIVE Substitute(_, _)
Substitute(s, templateMap) ==
    IF s = <<>> THEN <<>>
    ELSE IF Len(s) >= 3 /\ s[3] = TemplateSuffix /\ <<s[1], s[2]>> \in DOMAIN templateMap
         THEN templateMap[<<s[1], s[2]>>] \o Substitute(SubSeq(s, 4, Len(s)), templateMap)
         ELSE <<s[1]>> \o Substitute(Tail(s), templateMap)

ReloadYamlTemplate(c, templateMap) ==
    [c EXCEPT !.name = Substitute(@, templateMap),
              !.import = [path |-> Substitute(@.path, templateMap),
                          url |-> Substitute(@.url, templateMap)],
              !.images = [j \in 1..Len(@) |-> Substitute(@[j], templateMap)],
              !.repos = [j \in 1..Len(@) |-> Substitute(@[j], templateMap)],
              !.files = [j \in 1..Len(@) |-> [@[j] EXCEPT !.source = Substitute(@, templateMap)]]]

TemplateMapFor(prefixes, setVariables) ==
    [pk \in prefixes \X DOMAIN setVariables |-> setVariables[pk[2]]]

PkgValidateTemplateDeprecation(key) == <<"Package template is using the deprecated syntax", key>>
UnsetVarLintWarning == <<"There are templates that are not set and won't be evaluated during lint">>

(* fillComponentTemplate (second iteration): the new findings and the node   *)
(* with its templates filled.  keyOrder is the order in which the keys of    *)
(* the yamlTemplates map are ranged over.                                    *)
setVarsAndWarn(fs, node, setVariables, templatePrefix, deprecated, keyOrder) ==
    LET keys == FindYamlTemplates(node.component, templatePrefix)
        One(acc, key) ==
            LET a == IF deprecated
                     THEN addWarning(acc, NodeMessage(node, EmptyStr,
                                                      PkgValidateTemplateDeprecation(key), EmptyStr))
                     ELSE acc
            IN IF key \notin DOMAIN setVariables
               THEN addWarning(a, NodeMessage(node, EmptyStr, UnsetVarLintWarning, EmptyStr))
               ELSE a
    IN Fold(One, fs, SelectSeq(keyOrder, LAMBDA k : k \in keys))

fillComponentTemplateSwapped(fs, node, setVariables, keyOrder) ==
    LET a == setVarsAndWarn(fs, node, setVariables, ZarfPackageTemplatePrefix, TRUE, keyOrder)
        b == setVarsAndWarn(a, node, setVariables, ZarfPackageVariablePrefix, FALSE, keyOrder)
        templateMap == TemplateMapFor({ZarfPackageTemplatePrefix, ZarfPackageVariablePrefix}, setVariables)
    IN [findings |-> b,
        node |-> [node EXCEPT !.component = ReloadYamlTemplate(@, templateMap)]]

fillComponentTemplate(fs, node, setVariables, keyOrder) ==
    LET a == setVarsAndWarn(fs, node, setVariables, ZarfPackageTemplatePrefix, FALSE, keyOrder)
        b == setVarsAndWarn(a, node, setVariables, ZarfPackageVariablePrefix, TRUE, keyOrder)
        templateMap == TemplateMapFor({ZarfPackageTemplatePrefix, ZarfPackageVariablePrefix}, setVariables)
    IN [findings |-> b,
        node |-> [node EXCEPT !.component = ReloadYamlTemplate(@, templateMap)]]

-----------------------------------------------------------------------------
(* composer: CompatibleComponent and NewImportChain                          *)

DefaultArch == <<"amd64">>

(* config.GetArch *)
GetArch(arch) == IF arch # EmptyStr THEN arch ELSE DefaultArch

CompatibleComponentArchOnly(c, arch, flavor) == c.only.arch = EmptyStr \/ c.only.arch = arch

CompatibleComponent(c, arch, flavor) ==
    /\ (c.only.arch = EmptyStr \/ c.only.arch = arch)
    /\ (c.only.flavor = EmptyStr \/ c.only.flavor = flavor)

Node(c, index, packageName, location) ==
    [component |-> c, index |-> index, originalPackageName |-> packageName,
     relativeToHead |-> location]

HeadLocation == <<".">>

(* the builder right after the head was appended *)
BuildStart(head, index, packageName) ==
    [nodes |-> <<Node(head, index, packageName, HeadLocation)>>,
     status |-> "building", err |-> EmptyStr]

VisitedNone(st) == {}

Visited(st) == {st.nodes[k].relativeToHead : k \in 1..Len(st.nodes)}

ErrCircular(location) == <<"detected circular import chain">> \o location
ErrOpen(location) == <<"open">> \o location \o <<"/zarf.yaml: no such file or directory">>
ErrNotFound(name) == <<"component not found in the imported package">> \o name
ErrIncompatible(name) == <<"imported component is not compatible">> \o name

StripOnlyNone(c) == c

StripOnly(c) == [c EXCEPT !.only = [arch |-> EmptyStr, flavor |-> EmptyStr]]

(* one resolution step of NewImportChain on the last node of the chain *)
BuildStep(st, w, arch, flavor) ==
    LET node == st.nodes[Len(st.nodes)]
        c == node.component
        location == IF c.import.path # EmptyStr THEN c.import.path ELSE c.import.url
        Fail(e) == [st EXCEPT !.status = "err", !.err = e]
    IN IF c.import.path = EmptyStr /\ c.import.url = EmptyStr
       THEN [st EXCEPT !.status = "ok"]
       ELSE IF location \in Visited(st) THEN Fail(ErrCircular(location))
       ELSE IF location \notin DOMAIN w \/ ~w[location].present THEN Fail(ErrOpen(location))
       ELSE IF w[location].component.name # c.name THEN Fail(ErrNotFound(c.name))
       ELSE IF ~CompatibleComponent(w[location].component, arch, flavor)
            THEN Fail(ErrIncompatible(c.name))
       ELSE [st EXCEPT !.nodes = Append(@, Node(StripOnly(w[location].component), 0,
                                                w[location].name, location))]

MaxChain == 4

RECURSIVE BuildRun(_, _, _, _, _)
BuildRun(st, w, arch, flavor, fuel) ==
    IF st.status # "building" \/ fuel = 0 THEN st
    ELSE BuildRun(BuildStep(st, w, arch, flavor), w, arch, flavor, fuel - 1)

(* NewImportChain: the chain (its nodes, head first) and the error *)
NewImportChain(head, index, packageName, arch, flavor, w) ==
    BuildRun(BuildStart(head, index, packageName), w, arch, flavor, MaxChain + 1)

ComposeHeadOnly(nodes) ==
    [nodes[1].component EXCEPT !.import = [path |-> EmptyStr, url |-> EmptyStr]]

(* chain.Compose: the head's component with the list fields of every node   *)
(* of the chain unioned into it and the import resolved away.                *)
Compose(nodes) ==
    LET head == nodes[1].component
        All(F(_)) == FlatMap(F, 1, Len(nodes))
        Images(k) == nodes[k].component.images
        Repos(k) == nodes[k].component.repos
        Files(k) == nodes[k].component.files
    IN [head EXCEPT !.import = [path |-> EmptyStr, url |-> EmptyStr],
                    !.images = Unique(All(Images)),
                    !.repos = Unique(All(Repos)),
                    !.files = Unique(All(Files))]

RECURSIVE ComposeFromPartial(_, _, _, _, _)
ComposeFromPartial(p, flavor, w, i, components) ==
    IF i > Len(p.components)
    THEN [pkg |-> [p EXCEPT !.components = components], warnings |-> <<>>, err |-> EmptyStr]
    ELSE IF ~CompatibleComponent(p.components[i], p.arch, flavor)
         THEN ComposeFromPartial(p, flavor, w, i + 1, components)
         ELSE LET chain == NewImportChain(StripOnly(p.components[i]), i - 1, p.name,
                                          p.arch, flavor, w)
              IN IF chain.status # "ok"
                 THEN [pkg |-> [p EXCEPT !.components = components], warnings |-> <<>>,
                       err |-> chain.err]
                 ELSE ComposeFromPartial(p, flavor, w, i + 1,
                                         Append(components, Compose(chain.nodes)))

(* ComposeComponents(pkg, flavor): the composed package, the warnings and    *)
(* the error.                                                                *)
RECURSIVE ComposeFrom(_, _, _, _, _)
ComposeFrom(p, flavor, w, i, components) ==
    IF i > Len(p.components)
    THEN [pkg |-> [p EXCEPT !.components = components], warnings |-> <<>>, err |-> EmptyStr]
    ELSE IF ~CompatibleComponent(p.components[i], p.arch, flavor)
         THEN ComposeFrom(p, flavor, w, i + 1, components)
         ELSE LET chain == NewImportChain(StripOnly(p.components[i]), i - 1, p.name,
                                          p.arch, flavor, w)
              IN IF chain.status # "ok"
                 THEN [pkg |-> <<>>, warnings |-> <<>>, err |-> chain.err]
                 ELSE ComposeFrom(p, flavor, w, i + 1,
                                  Append(components, Compose(chain.nodes)))

ComposeComponents(p, flavor, w) == ComposeFrom(p, flavor, w, 1, <<>>)

-----------------------------------------------------------------------------
(* lintComponents: one iteration of the loop over pkg.Components, for the    *)
(* component at position i (1-based; the code's index is i - 1).  The result *)
(* is the findings list after the iteration and the error returned by it.    *)

Flavor == EmptyStr

SetOverridesNone(fs, node) == fs

SetOverrides(fs, node) ==
    [k \in 1..Len(fs) |-> [fs[k] EXCEPT !.packageRelPath = node.relativeToHead,
                                        !.packageName = node.originalPackageName]]

lintNodeV1(node, templateMap) ==
    LET component == node.component
        nodeErrs == checkForVarInComponentImportV1(component, node.index)
        filled == ReloadYamlTemplate(component, templateMap)
    IN SetOverrides(nodeErrs \o checkComponentV1(filled, node.index), node)

lintComponentsStepV1(fs, p, i, setVariables, w) ==
    LET arch == GetArch(p.arch)
        templateMap == TemplateMapFor({ZarfPackageTemplatePrefix}, setVariables)
        chain == NewImportChain(p.components[i], i - 1, p.name, arch, Flavor, w)
        One(k) == lintNodeV1(chain.nodes[k], templateMap)
    IN IF ~CompatibleComponent(p.components[i], arch, Flavor)
       THEN [findings |-> fs, err |-> EmptyStr, linted |-> FALSE]
       ELSE IF chain.status # "ok"
       THEN [findings |-> <<>>, err |-> chain.err, linted |-> FALSE]
       ELSE [findings |-> fs \o FlatMap(One, 1, Len(chain.nodes)), err |-> EmptyStr,
             linted |-> TRUE]

badImportYqPath(head, i) ==
    IF head.import.path # EmptyStr THEN ImportPathYqPath(i - 1)
    ELSE IF head.import.url # EmptyStr THEN ImportURLYqPath(i - 1)
    ELSE EmptyStr

lintNodeV2(fs, node, setVariables, keyOrder) ==
    LET a == checkForVarInComponentImportV2(fs, node)
        b == fillComponentTemplate(a, node, setVariables, keyOrder)
    IN lintComponentV2(b.findings, b.node)

lintComponentsStepV2(fs, p, i, setVariables, w, keyOrder) ==
    LET arch == GetArch(p.arch)
        chain == NewImportChain(p.components[i], i - 1, p.name, arch, Flavor, w)
        a == IF chain.status # "ok"
             THEN addError(fs, Finding(badImportYqPath(chain.nodes[1].component, i), chain.err,
                                       EmptyStr, HeadLocation, p.name, CategoryUnset))
             ELSE fs
        One(acc, node) == lintNodeV2(acc, node, setVariables, keyOrder)
    IN IF ~CompatibleComponent(p.components[i], arch, Flavor)
       THEN [findings |-> fs, err |-> EmptyStr, linted |-> FALSE]
       ELSE [findings |-> Fold(One, a, chain.nodes), err |-> EmptyStr, linted |-> TRUE]

lintNodeV3(node) == checkForVarInComponentImportV3(node) \o lintComponentV3(node)

lintComponentsStepV3(fs, p, i, w) ==
    LET arch == GetArch(p.arch)
        chain == NewImportChain(p.components[i], i - 1, p.name, arch, Flavor, w)
        a == IF chain.status # "ok"
             THEN Append(fs, Finding(badImportYqPath(chain.nodes[1].component, i), chain.err,
                                     EmptyStr, EmptyStr, EmptyStr, CategoryError))
             ELSE fs
        One(k) == lintNodeV3(chain.nodes[k])
    IN IF ~CompatibleComponent(p.components[i], arch, Flavor)
       THEN [findings |-> fs, err |-> EmptyStr, linted |-> FALSE]
       ELSE [findings |-> a \o FlatMap(One, 1, Len(chain.nodes)), err |-> EmptyStr,
             linted |-> TRUE]

lintComponentsStep(v, fs, p, i, setVariables, w, keyOrder) ==
    IF v = 1 THEN lintComponentsStepV1(fs, p, i, setVariables, w)
    ELSE IF v = 2 THEN lintComponentsStepV2(fs, p, i, setVariables, w, keyOrder)
    ELSE lintComponentsStepV3(fs, p, i, w)

-----------------------------------------------------------------------------
(* makeFieldPathYqCompat on a field path given character by character:       *)
(* regexp (\b\d+\b) replaced by [$1], then "." put in front.                 *)

RootField == <<"(", "r", "o", "o", "t", ")">>

IsDigitChar(ch) == ch \in {"0", "1", "2", "3", "4", "5", "6", "7", "8", "9"}

NonWordChars == {".", "(", ")", "[", "]", "-", " "}

IsWordChar(ch) == ch \notin NonWordChars

(* the last position of the run of digits starting at k *)
RECURSIVE DigitRunEnd(_, _)
DigitRunEnd(s, k) ==
    IF k < Len(s) /\ IsDigitChar(s[k + 1]) THEN DigitRunEnd(s, k + 1) ELSE k

RECURSIVE WrapNumbers(_, _)
WrapNumbers(s, k) ==
    IF k > Len(s) THEN <<>>
    ELSE LET e == DigitRunEnd(s, k)
             matches == /\ IsDigitChar(s[k])
                        /\ (k = 1 \/ ~IsWordChar(s[k - 1]))
                        /\ (e = Len(s) \/ ~IsWordChar(s[e + 1]))
         IN IF matches
            THEN <<"[">> \o SubSeq(s, k, e) \o <<"]">> \o WrapNumbers(s, e + 1)
            ELSE <<s[k]>> \o WrapNumbers(s, k + 1)

RECURSIVE WrapDigitRuns(_, _)
WrapDigitRuns(s, k) ==
    IF k > Len(s) THEN <<>>
    ELSE IF IsDigitChar(s[k])
         THEN <<"[">> \o SubSeq(s, k, DigitRunEnd(s, k)) \o <<"]">>
                  \o WrapDigitRuns(s, DigitRunEnd(s, k) + 1)
         ELSE <<s[k]>> \o WrapDigitRuns(s, k + 1)

makeFieldPathYqCompatNoBoundary(field) ==
    IF field = RootField THEN field ELSE <<".">> \o WrapDigitRuns(field, 1)

makeFieldPathYqCompat(field) ==
    IF field = RootField THEN field ELSE <<".">> \o WrapNumbers(field, 1)

(* validateSchema: the new findings list and the error, from the outcome    *)
(* of runSchema (the engine's error, or the schema errors it returned)       *)
validateSchemaV1(fs, outcome) ==
    LET One(k) == <<Finding(makeFieldPathYqCompat(outcome.errors[k].field),
                            outcome.errors[k].description, EmptyStr, EmptyStr, EmptyStr,
                            CategoryError)>>
    IN IF outcome.err # EmptyStr THEN [findings |-> <<>>, err |-> outcome.err]
       ELSE [findings |-> fs \o FlatMap(One, 1, Len(outcome.errors)), err |-> EmptyStr]

validateSchemaV2(fs, outcome, p) ==
    LET One(acc, e) == addError(acc, Finding(makeFieldPathYqCompat(e.field), e.description,
                                             EmptyStr, HeadLocation, p.name, CategoryUnset))
    IN IF outcome.err # EmptyStr THEN [findings |-> <<>>, err |-> outcome.err]
       ELSE [findings |-> Fold(One, fs, outcome.errors), err |-> EmptyStr]

validateSchemaV3(fs, outcome) ==
    LET One(k) == <<Finding(makeFieldPathYqCompat(outcome.errors[k].field),
                            outcome.errors[k].description, EmptyStr, EmptyStr, EmptyStr,
                            CategoryUnset)>>
    IN IF outcome.err # EmptyStr THEN [findings |-> <<>>, err |-> outcome.err]
       ELSE [findings |-> fs \o FlatMap(One, 1, Len(outcome.errors)), err |-> EmptyStr]

validateSchema(v, fs, outcome, p) ==
    IF v = 1 THEN validateSchemaV1(fs, outcome)
    ELSE IF v = 2 THEN validateSchemaV2(fs, outcome, p)
    ELSE validateSchemaV3(fs, outcome)

-----------------------------------------------------------------------------
(* ZarfPackage.Validate, for the fields the model's packages carry: the      *)
(* joined errors, <<>> when the package is valid.                            *)

ErrNoComponents == <<"package must have at least 1 component">>
ErrNameNotUnique(name) == <<"component name is not unique">> \o name

ZarfPackageValidate(p) ==
    LET Dup(k) == IF \E j \in 1..(k - 1) : p.components[j].name = p.components[k].name
                  THEN ErrNameNotUnique(p.components[k].name)
                  ELSE <<>>
    IN (IF Len(p.components) = 0 THEN ErrNoComponents ELSE <<>>)
       \o FlatMap(Dup, 1, Len(p.components))

-----------------------------------------------------------------------------
(* Values held by the variables a specification does not use *)

Idle ==
    /\ ver = 2
    /\ pkg = [name |-> <<"test-zarf-package">>, arch |-> <<"amd64">>, components |-> <<>>]
    /\ world = <<>>
    /\ setVars = <<>>
    /\ idx = 1
    /\ fatal = EmptyStr
    /\ linted = {}
    /\ result = EmptyStr
    /\ bst = <<>>

-----------------------------------------------------------------------------
(* SpecValidator: a Validator driven through addWarning and addError *)

Message(d, p, c) ==
    [yqPath |-> EmptyStr, description |-> d, item |-> EmptyStr,
     packageRelPath |-> p, packageName |-> <<"import">>, category |-> c]

Messages ==
    {Message(d, p, c) : d \in {<<"d1">>, <<"d2">>}, p \in {<<".">>, <<"path">>},
                        c \in {CategoryUnset, CategoryError, CategoryWarning}}

InitValidator ==
    /\ Idle
    /\ pc = "validator"
    /\ findings = <<>>
    /\ calls = 0
    /\ out = <<>>

AddWarning(vm) ==
    /\ pc = "validator"
    /\ calls < MaxCalls
    /\ findings' = addWarning(findings, vm)
    /\ calls' = calls + 1
    /\ UNCHANGED <<ver, pkg, world, setVars, pc, idx, fatal, linted, result, bst, out>>

AddError(vm) ==
    /\ pc = "validator"
    /\ calls < MaxCalls
    /\ findings' = addError(findings, vm)
    /\ calls' = calls + 1
    /\ UNCHANGED <<ver, pkg, world, setVars, pc, idx, fatal, linted, result, bst, out>>

NextValidator ==
    \/ \E vm \in Messages : AddWarning(vm)
    \/ \E vm \in Messages : AddError(vm)

SpecValidator == InitValidator /\ [][NextValidator]_vars

-----------------------------------------------------------------------------
(* SpecGroup: groupFindingsByPath applied to a list of findings *)

GroupFinding(n, p, c) ==
    [yqPath |-> EmptyStr, description |-> EmptyStr, item |-> EmptyStr,
     packageRelPath |-> p, packageName |-> n, category |-> c]

GroupFindings ==
    {GroupFinding(n, p, c) : n \in {EmptyStr, <<"import">>}, p \in {EmptyStr, <<"path">>},
                             c \in {CategoryError, CategoryWarning}}

TopPackageName == <<"testPackage">>

InitGroup ==
    /\ Idle
    /\ pc = "group"
    /\ \E n \in 0..MaxFindings : findings \in [1..n -> GroupFindings]
    /\ calls = 0
    /\ out = <<>>

GroupFindingsByPath(severity) ==
    /\ pc = "group"
    /\ out' = [severity |-> severity,
               groups |-> groupFindingsByPath(findings, severity, TopPackageName)]
    /\ pc' = "grouped"
    /\ UNCHANGED <<ver, pkg, world, setVars, idx, findings, fatal, linted, result, calls, bst>>

NextGroup == \E severity \in {CategoryError, CategoryWarning} : GroupFindingsByPath(severity)

SpecGroup == InitGroup /\ [][NextGroup]_vars

-----------------------------------------------------------------------------
(* The packages, import worlds and options the lint specifications start in *)

ImgUnpinned == <<"unpinned", ":", "latest">>
ImgPinned == <<"busybox", ":", "latest", "@", "sha256:3fbc">>
ImgBad == <<"busybox", ":", "bad", "/", "image">>
ImgTmpl == <<"busybox", ":", ZarfPackageTemplatePrefix, "IMG", TemplateSuffix>>
ImgVar == <<"busybox", ":", ZarfPackageVariablePrefix, "IMG", TemplateSuffix>>
RepoUnpinned == <<"https://", "github.com/defenseunicorns/zarf-public-test.git">>
RepoPinned == <<"https://", "dev.azure.com/defenseunicorns/zarf-public-test", "@", "v0.0.1">>
FileRemote == [source |-> <<"http://", "example.com/file.zip">>, shasum |-> EmptyStr]
FileLocal == [source |-> <<"local.txt">>, shasum |-> EmptyStr]
FileSummed == [source |-> <<"http://", "example.com/file.zip">>, shasum |-> <<"fake-shasum">>]

Component(name, flavor, path, url, images, repos, files) ==
    [name |-> name, only |-> [arch |-> EmptyStr, flavor |-> flavor],
     import |-> [path |-> path, url |-> url],
     images |-> images, repos |-> repos, files |-> files]

LocA == <<"a">>
LocB == <<"b">>
FakePath == <<"fake-path">>
TmplPath == <<ZarfPackageTemplatePrefix, "PATH", TemplateSuffix>>
TmplURL == <<"oci://", ZarfPackageTemplatePrefix, "PATH", TemplateSuffix>>
VarPath == <<ZarfPackageVariablePrefix, "PATH", TemplateSuffix>>

TopComponents ==
    { Component(<<"plain">>, EmptyStr, EmptyStr, EmptyStr,
                <<ImgUnpinned, ImgPinned>>, <<RepoUnpinned, RepoPinned>>, <<>>),
      Component(<<"x">>, EmptyStr, FakePath, EmptyStr, <<ImgUnpinned>>, <<>>, <<>>),
      Component(<<"x">>, EmptyStr, LocA, EmptyStr,
                <<ImgPinned, ImgBad>>, <<>>, <<FileRemote, FileLocal, FileSummed>>),
      Component(<<"flavored">>, <<"other">>, EmptyStr, EmptyStr, <<ImgUnpinned>>, <<>>, <<>>),
      Component(<<"tmpl">>, EmptyStr, TmplPath, EmptyStr, <<ImgTmpl>>, <<>>, <<>>),
      Component(<<"oci">>, EmptyStr, EmptyStr, TmplURL, <<ImgVar>>, <<>>, <<>>),
      Component(<<"var">>, EmptyStr, VarPath, EmptyStr, <<>>, <<>>, <<>>) }

Packages ==
    {[name |-> <<"test-zarf-package">>, arch |-> DefaultArch, components |-> cs] :
        cs \in UNION {[1..n -> TopComponents] : n \in 0..MaxComponents}}

(* the package at a location: whether it exists, its name, its component *)
Imported(present, pkgName, compName, path, images, repos) ==
    [present |-> present, name |-> pkgName,
     component |-> Component(compName, EmptyStr, path, EmptyStr, images, repos, <<>>)]

WorldsA ==
    {Imported(TRUE, <<"pkg-a">>, <<"x">>, path, <<ImgUnpinned>>, <<>>) :
        path \in {EmptyStr, LocA, LocB, HeadLocation}}

WorldsB ==
    {Imported(FALSE, EmptyStr, EmptyStr, EmptyStr, <<>>, <<>>),
     Imported(TRUE, <<"pkg-b">>, <<"y">>, EmptyStr, <<>>, <<>>)}
    \cup {Imported(TRUE, <<"pkg-b">>, <<"x">>, path, <<ImgVar>>, <<RepoUnpinned>>) :
            path \in {EmptyStr, LocA}}

Worlds == {[l \in {LocA, LocB} |-> IF l = LocA THEN a ELSE b] : a \in WorldsA, b \in WorldsB}

Keys == {"PATH", "IMG"}

SetVariablesChoices ==
    {[k \in {} |-> EmptyStr],
     [k \in Keys |-> IF k = "PATH" THEN LocA ELSE <<"latest">>]}

KeyOrders == {<<"PATH", "IMG">>, <<"IMG", "PATH">>}

SchemaError(field, description) == [field |-> field, description |-> description]

SchemaOutcomes ==
    {[err |-> <<"schema engine failed">>, errors |-> <<>>],
     [err |-> EmptyStr, errors |-> <<>>],
     [err |-> EmptyStr,
      errors |-> <<SchemaError(RootField, <<"kind is required">>),
                   SchemaError(<<"c", "1", "2", ".", "1", "2", ".", "p">>,
                               <<"Invalid type">>)>>]}

-----------------------------------------------------------------------------
(* Spec: lint.Validate on a package: lintComponents, then (second            *)
(* iteration) the composition of the package, then validateSchema.           *)

InitInputs(versions) ==
    /\ ver \in versions
    /\ pkg \in Packages
    /\ world \in Worlds
    /\ setVars \in SetVariablesChoices
    /\ idx = 1
    /\ findings = <<>>
    /\ fatal = EmptyStr
    /\ linted = {}
    /\ result = EmptyStr
    /\ calls = 0
    /\ bst = <<>>
    /\ out = <<>>

Init ==
    /\ InitInputs({1, 2, 3})
    /\ pc = "lint"

ComposeTargetRaw(p) == p

(* the package Validate hands to ComposeComponents: Metadata.Architecture    *)
(* replaced by config.GetArch of it                                          *)
ComposeTarget(p) == [p EXCEPT !.arch = GetArch(@)]

(* one iteration of lintComponents' loop *)
LintComponent(keyOrder) ==
    /\ pc = "lint"
    /\ idx <= Len(pkg.components)
    /\ LET r == lintComponentsStep(ver, findings, pkg, idx, setVars, world, keyOrder)
       IN /\ findings' = r.findings
          /\ fatal' = r.err
          /\ linted' = IF r.linted THEN linted \cup {idx} ELSE linted
          /\ IF r.err # EmptyStr
             THEN pc' = "lintReturned" /\ idx' = idx
             ELSE pc' = pc /\ idx' = idx + 1
    /\ UNCHANGED <<ver, pkg, world, setVars, result, calls, bst, out>>

(* lintComponents returns after the last component *)
LintComponentsReturn ==
    /\ pc = "lint"
    /\ idx > Len(pkg.components)
    /\ pc' = "lintReturned"
    /\ UNCHANGED <<ver, pkg, world, setVars, idx, findings, fatal, linted, result, calls, bst, out>>

(* Validate between lintComponents and validateSchema *)
ValidateAfterLint ==
    /\ pc = "lintReturned"
    /\ IF fatal # EmptyStr
       THEN /\ pc' = "done"
            /\ UNCHANGED <<findings, fatal, out>>
       ELSE IF ver = 2
       THEN LET composed == ComposeComponents(ComposeTarget(pkg), Flavor, world)
            IN /\ out' = composed
               /\ IF composed.err # EmptyStr
                  THEN /\ pc' = "done"
                       /\ fatal' = composed.err
                       /\ findings' = <<>>
                  ELSE /\ pc' = "schema"
                       /\ UNCHANGED <<findings, fatal>>
       ELSE /\ pc' = "schema"
            /\ UNCHANGED <<findings, fatal, out>>
    /\ UNCHANGED <<ver, pkg, world, setVars, idx, linted, result, calls, bst>>

ValidateSchema(outcome) ==
    /\ pc = "schema"
    /\ LET r == validateSchema(ver, findings, outcome, pkg)
       IN /\ findings' = r.findings
          /\ fatal' = r.err
    /\ pc' = "done"
    /\ UNCHANGED <<ver, pkg, world, setVars, idx, linted, result, calls, bst, out>>

NextLint ==
    \/ \E keyOrder \in KeyOrders : LintComponent(keyOrder)
    \/ LintComponentsReturn
    \/ ValidateAfterLint
    \/ \E outcome \in SchemaOutcomes : ValidateSchema(outcome)

Next == NextLint

Spec == Init /\ [][Next]_vars

-----------------------------------------------------------------------------
(* SpecCreate: the creator's lintPackage, which runs the list-returning      *)
(* lint.Validate (first and third iteration) behind ZarfPackage.Validate.    *)

ErrPackageValidation == <<"package validation failed">>
ErrUnableToLint == <<"unable to lint package">>
ErrDuringLint == <<"errors during lint">>

InitCreate ==
    /\ InitInputs({1, 3})
    /\ pc = "create"

LintPackageValidate ==
    /\ pc = "create"
    /\ IF ZarfPackageValidate(pkg) # <<>>
       THEN /\ result' = ErrPackageValidation \o ZarfPackageValidate(pkg)
            /\ pc' = "returned"
       ELSE /\ result' = result
            /\ pc' = "lint"
    /\ UNCHANGED <<ver, pkg, world, setVars, idx, findings, fatal, linted, calls, bst, out>>

LintPackageFinish ==
    /\ pc = "done"
    /\ result' = IF fatal # EmptyStr THEN ErrUnableToLint \o fatal
                 ELSE IF HasErrors(findings) THEN ErrDuringLint
                 ELSE EmptyStr
    /\ pc' = "returned"
    /\ UNCHANGED <<ver, pkg, world, setVars, idx, findings, fatal, linted, calls, bst, out>>

NextCreate ==
    \/ LintPackageValidate
    \/ NextLint
    \/ LintPackageFinish

SpecCreate == InitCreate /\ [][NextCreate]_vars

-----------------------------------------------------------------------------
(* SpecChain: NewImportChain resolving one import at a time, for the first   *)
(* component of a package.                                                   *)

InitChain ==
    /\ InitInputs({2})
    /\ Len(pkg.components) = 1
    /\ setVars = [k \in {} |-> EmptyStr]
    /\ pc = "chain"

StartChain ==
    /\ pc = "chain"
    /\ bst = <<>>
    /\ bst' = BuildStart(pkg.components[1], 0, pkg.name)
    /\ UNCHANGED <<ver, pkg, world, setVars, pc, idx, findings, fatal, linted, result, calls, out>>

ResolveImport ==
    /\ pc = "chain"
    /\ bst # <<>>
    /\ bst.status = "building"
    /\ Len(bst.nodes) <= MaxChain
    /\ bst' = BuildStep(bst, world, GetArch(pkg.arch), Flavor)
    /\ UNCHANGED <<ver, pkg, world, setVars, pc, idx, findings, fatal, linted, result, calls, out>>

NextChain == StartChain \/ ResolveImport

SpecChain == InitChain /\ [][NextChain]_vars

-----------------------------------------------------------------------------
(* SpecImage: isPinnedImage and checkForUnpinnedImages applied to one image  *)
(* reference                                                                 *)

MaxImageLen == 4

ImageTokens ==
    {"busybox", ":", "/", "@", "sha256:3fbc", ZarfPackageTemplatePrefix, ZarfPackageVariablePrefix}

ImageStrings == UNION {[1..n -> ImageTokens] : n \in 0..MaxImageLen}

(* a head node holding one component with the given lists *)
CheckedNode(images, repos, index) ==
    Node(Component(<<"c">>, EmptyStr, EmptyStr, EmptyStr, images, repos, <<>>),
         index, TopPackageName, HeadLocation)

checkForUnpinnedImages(v, node) ==
    IF v = 1 THEN checkForUnpinnedImagesV1(node.component, node.index)
    ELSE IF v = 2 THEN checkForUnpinnedImagesV2(<<>>, node)
    ELSE checkForUnpinnedImagesV3(node)

InitImage ==
    /\ Idle
    /\ pc = "image"
    /\ findings = <<>>
    /\ calls = 0
    /\ out \in {[image |-> image] : image \in ImageStrings}

CheckForUnpinnedImages(v) ==
    /\ pc = "image"
    /\ ver' = v
    /\ out' = [image |-> out.image, result |-> isPinnedImage(out.image)]
    /\ findings' = checkForUnpinnedImages(v, CheckedNode(<<out.image>>, <<>>, 0))
    /\ pc' = "imageChecked"
    /\ UNCHANGED <<pkg, world, setVars, idx, fatal, linted, result, calls, bst>>

NextImage == \E v \in {1, 2, 3} : CheckForUnpinnedImages(v)

SpecImage == InitImage /\ [][NextImage]_vars

-----------------------------------------------------------------------------
(* SpecRepos: checkForUnpinnedRepos applied to the repos of one component    *)

MaxRepos == 3

RepoOther == <<"https://", "example.com/other.git">>

RepoLists == UNION {[1..n -> {RepoUnpinned, RepoPinned, RepoOther}] : n \in 0..MaxRepos}

checkForUnpinnedRepos(v, node) ==
    IF v = 1 THEN checkForUnpinnedReposV1(node.component, node.index)
    ELSE IF v = 2 THEN checkForUnpinnedReposV2(<<>>, node)
    ELSE checkForUnpinnedReposV3(node)

InitRepos ==
    /\ Idle
    /\ pc = "repos"
    /\ findings = <<>>
    /\ calls = 0
    /\ out \in {[repos |-> repos, index |-> index] : repos \in RepoLists, index \in 0..1}

CheckForUnpinnedRepos(v) ==
    /\ pc = "repos"
    /\ ver' = v
    /\ findings' = checkForUnpinnedRepos(v, CheckedNode(<<>>, out.repos, out.index))
    /\ pc' = "reposChecked"
    /\ UNCHANGED <<pkg, world, setVars, idx, fatal, linted, result, calls, bst, out>>

NextRepos == \E v \in {1, 2, 3} : CheckForUnpinnedRepos(v)

SpecRepos == InitRepos /\ [][NextRepos]_vars

-----------------------------------------------------------------------------
(* SpecField: makeFieldPathYqCompat applied to one field path                *)

MaxFieldLen == 4

FieldChars == {"c", "1", "2", ".", "-"}

Fields == {RootField} \cup UNION {[1..n -> FieldChars] : n \in 0..MaxFieldLen}

InitField ==
    /\ Idle
    /\ pc = "field"
    /\ findings = <<>>
    /\ calls = 0
    /\ out \in {[field |-> field] : field \in Fields}

MakeFieldPathYqCompat ==
    /\ pc = "field"
    /\ out' = [field |-> out.field, yqPath |-> makeFieldPathYqCompat(out.field)]
    /\ pc' = "fieldDone"
    /\ UNCHANGED <<ver, pkg, world, setVars, idx, findings, fatal, linted, result, calls, bst>>

NextField == MakeFieldPathYqCompat

SpecField == InitField /\ [][NextField]_vars

-----------------------------------------------------------------------------
(* SpecCompatible: CompatibleComponent applied to one component and target   *)

Architectures == {EmptyStr, <<"amd64">>, <<"arm64">>}

Flavors == {EmptyStr, <<"vanilla">>, <<"chocolate">>}

InitCompatible ==
    /\ Idle
    /\ pc = "compatible"
    /\ findings = <<>>
    /\ calls = 0
    /\ out \in {[component |-> [Component(<<"c">>, f, EmptyStr, EmptyStr, <<>>, <<>>, <<>>)
                                  EXCEPT !.only.arch = a],
                 arch |-> arch, flavor |-> flavor] :
                   a \in Architectures, f \in Flavors, arch \in Architectures, flavor \in Flavors}

CompatibleComponentCall ==
    /\ pc = "compatible"
    /\ out' = [component |-> out.component, arch |-> out.arch, flavor |-> out.flavor,
               compatible |-> CompatibleComponent(out.component, out.arch, out.flavor)]
    /\ pc' = "compatibleReturned"
    /\ UNCHANGED <<ver, pkg, world, setVars, idx, findings, fatal, linted, result, calls, bst>>

NextCompatible == CompatibleComponentCall

SpecCompatible == InitCompatible /\ [][NextCompatible]_vars

-----------------------------------------------------------------------------
(* SpecSelect: the Validator iteration of lint.Validate on packages whose    *)
(* architecture may be unset and whose components carry only.cluster         *)
(* .architecture and only.flavor                                             *)

OnlyComponent(name, arch, flavor, path, image) ==
    [Component(name, flavor, path, EmptyStr, <<image>>, <<>>, <<>>)
       EXCEPT !.only.arch = arch]

OnlyComponents ==
    {OnlyComponent(<<"any">>, EmptyStr, EmptyStr, EmptyStr, ImgUnpinned),
     OnlyComponent(<<"amd">>, <<"amd64">>, EmptyStr, EmptyStr, ImgUnpinned),
     OnlyComponent(<<"arm">>, <<"arm64">>, EmptyStr, EmptyStr, ImgUnpinned),
     OnlyComponent(<<"other">>, EmptyStr, <<"other">>, EmptyStr, ImgUnpinned),
     OnlyComponent(<<"armother">>, <<"arm64">>, <<"other">>, EmptyStr, ImgUnpinned),
     OnlyComponent(<<"x">>, <<"amd64">>, EmptyStr, LocA, ImgUnpinned),
     OnlyComponent(<<"x">>, EmptyStr, EmptyStr, LocA, ImgPinned)}

OnlyPackages ==
    {[name |-> <<"test-zarf-package">>, arch |-> arch, components |-> cs] :
        arch \in Architectures,
        cs \in UNION {[1..n -> OnlyComponents] : n \in 0..MaxComponents}}

InitSelect ==
    /\ ver = 2
    /\ pkg \in OnlyPackages
    /\ world \in Worlds
    /\ setVars = [k \in {} |-> EmptyStr]
    /\ idx = 1
    /\ findings = <<>>
    /\ fatal = EmptyStr
    /\ linted = {}
    /\ result = EmptyStr
    /\ calls = 0
    /\ bst = <<>>
    /\ out = <<>>
    /\ pc = "lint"

SpecSelect == InitSelect /\ [][NextLint]_vars

-----------------------------------------------------------------------------
(* SpecCompose: ComposeComponents applied to a package and a flavor *)

InitCompose ==
    /\ ver = 2
    /\ pkg \in OnlyPackages
    /\ world \in Worlds
    /\ setVars = [k \in {} |-> EmptyStr]
    /\ idx = 1
    /\ findings = <<>>
    /\ fatal = EmptyStr
    /\ linted = {}
    /\ result = EmptyStr
    /\ calls = 0
    /\ bst = <<>>
    /\ out \in [flavor : {EmptyStr, <<"other">>}]
    /\ pc = "compose"

ComposeComponentsCall ==
    /\ pc = "compose"
    /\ LET r == ComposeComponents(pkg, out.flavor, world)
       IN out' = [flavor |-> out.flavor, pkg |-> r.pkg, warnings |-> r.warnings, err |-> r.err]
    /\ pc' = "composed"
    /\ UNCHANGED <<ver, pkg, world, setVars, idx, findings, fatal, linted, result, calls, bst>>

NextCompose == ComposeComponentsCall

SpecCompose == InitCompose /\ [][NextCompose]_vars

-----------------------------------------------------------------------------
(* SpecMigrate: chain.Migrate applied repeatedly to a chain.  A node's       *)
(* component carries the deprecated fields setVariable and scripts and       *)
(* their current equivalents setVariables and actions.                       *)

InSeq(s, x) == \E k \in 1..Len(s) : s[k] = x

PluralizeSetVariableAlways(c) == [c EXCEPT !.setVariables = Append(@, c.setVariable)]

(* rule: setVariable -> setVariables *)
PluralizeSetVariable(c) ==
    IF c.setVariable # EmptyStr /\ ~InSeq(c.setVariables, c.setVariable)
    THEN [c EXCEPT !.setVariables = Append(@, c.setVariable)]
    ELSE c

(* rule: scripts -> actions *)
ScriptsToActions(c) ==
    IF c.scripts # EmptyStr /\ ~InSeq(c.actions, c.scripts)
    THEN [c EXCEPT !.actions = Append(@, c.scripts)]
    ELSE c

MigrateComponent(c) == PluralizeSetVariable(ScriptsToActions(c))

MigrationWarnings(c) ==
    (IF c.scripts # EmptyStr THEN <<"scripts migrated to actions">> ELSE <<>>)
    \o (IF c.setVariable # EmptyStr THEN <<"setVariable migrated to setVariables">> ELSE <<>>)

(* chain.Migrate: every node's component migrated, and the warnings *)
Migrate(chain) ==
    LET W(k) == MigrationWarnings(chain[k])
    IN [chain |-> [k \in 1..Len(chain) |-> MigrateComponent(chain[k])],
        warnings |-> FlatMap(W, 1, Len(chain))]

MigrateComponents ==
    [setVariable : {EmptyStr, <<"V">>}, setVariables : {<<>>, <<<<"V">>>>, <<<<"W">>>>},
     scripts : {EmptyStr, <<"s">>}, actions : {<<>>, <<<<"s">>>>, <<<<"t">>>>}]

InitMigrate ==
    /\ Idle
    /\ pc = "migrate"
    /\ findings = <<>>
    /\ calls = 0
    /\ \E n \in 1..MaxComponents :
          out \in [chain : [1..n -> MigrateComponents], warnings : {<<>>}]

MigrateChain ==
    /\ pc = "migrate"
    /\ calls < MaxCalls
    /\ out' = Migrate(out.chain)
    /\ calls' = calls + 1
    /\ UNCHANGED <<ver, pkg, world, setVars, pc, idx, findings, fatal, linted, result, bst>>

NextMigrate == MigrateChain

SpecMigrate == InitMigrate /\ [][NextMigrate]_vars

-----------------------------------------------------------------------------
(* SpecPackageValidate: ZarfPackage.Validate on packages whose components    *)
(* carry required (the result of IsRequired), default and group.  An error   *)
(* is a message with its arguments; the joined error is the sequence of the  *)
(* errors, <<>> for nil.                                                     *)

PkgValidateErrComponentNameNotUnique(name) == <<"component name is not unique", name>>
PkgValidateErrComponentReqDefault(name) == <<"component cannot be both required and default", name>>
PkgValidateErrComponentReqGrouped(name) == <<"component cannot be both required and grouped", name>>
PkgValidateErrGroupMultipleDefaults(group, first, second) ==
    <<"group has multiple defaults", group, first, second>>
PkgValidateErrGroupOneComponent(group, name) == <<"group only has one component", group, name>>

errorsJoinFirst(err, errs) == IF err # <<>> THEN err ELSE errs

(* errors.Join(err, ...) for the errors one step adds *)
errorsJoin(err, errs) == err \o errs

(* groupDefault[group] before the component at position k is visited: the   *)
(* name of the last default component of the group among the earlier ones.  *)
groupDefaultBefore(cs, k, group) ==
    LET earlier == {j \in 1..(k - 1) : cs[j].group = group /\ cs[j].default}
    IN IF earlier = {} THEN EmptyStr
       ELSE cs[CHOOSE j \in earlier : \A i \in earlier : i <= j].name

(* the errors the loop over pkg.Components adds for the component at k *)
validateComponentAt(cs, k) ==
    LET c == cs[k]
    IN (IF \E j \in 1..(k - 1) : cs[j].name = c.name
        THEN <<PkgValidateErrComponentNameNotUnique(c.name)>> ELSE <<>>)
       \o (IF c.required /\ c.default
           THEN <<PkgValidateErrComponentReqDefault(c.name)>> ELSE <<>>)
       \o (IF c.required /\ c.group # EmptyStr
           THEN <<PkgValidateErrComponentReqGrouped(c.name)>> ELSE <<>>)
       \o (IF c.group # EmptyStr /\ c.default /\ groupDefaultBefore(cs, k, c.group) # EmptyStr
           THEN <<PkgValidateErrGroupMultipleDefaults(c.group,
                      groupDefaultBefore(cs, k, c.group), c.name)>>
           ELSE <<>>)

RECURSIVE validateComponentsFrom(_, _, _)
validateComponentsFrom(cs, k, err) ==
    IF k > Len(cs) THEN err
    ELSE validateComponentsFrom(cs, k + 1, errorsJoin(err, validateComponentAt(cs, k)))

(* groupedComponents[group] *)
groupedComponents(cs, group) ==
    LET members == SelectSeq(cs, LAMBDA c : c.group = group)
    IN [k \in 1..Len(members) |-> members[k].name]

(* the loop over the map groupedComponents, its keys visited in groupOrder *)
RECURSIVE validateGroupsFrom(_, _, _, _)
validateGroupsFrom(cs, groupOrder, n, err) ==
    IF n > Len(groupOrder) THEN err
    ELSE LET names == groupedComponents(cs, groupOrder[n])
         IN validateGroupsFrom(cs, groupOrder, n + 1,
               errorsJoin(err, IF Len(names) = 1
                               THEN <<PkgValidateErrGroupOneComponent(groupOrder[n], names[1])>>
                               ELSE <<>>))

ZarfPackageValidateGroups(p, groupOrder) ==
    LET none == IF Len(p.components) = 0 THEN <<ErrNoComponents>> ELSE <<>>
    IN validateGroupsFrom(p.components, groupOrder, 1,
                          validateComponentsFrom(p.components, 1, errorsJoin(<<>>, none)))

Groups == {<<"g1">>, <<"g2">>}

GroupOrders == {<<<<"g1">>, <<"g2">>>>, <<<<"g2">>, <<"g1">>>>}

GroupedComponents ==
    [name : {<<"a">>, <<"b">>}, required : BOOLEAN, default : BOOLEAN,
     group : {EmptyStr} \cup Groups]

InitPackageValidate ==
    /\ Idle
    /\ pc = "validate"
    /\ findings = <<>>
    /\ calls = 0
    /\ \E n \in 0..MaxComponents :
          out \in [pkg : [name : {<<"valid-package">>},
                          components : [1..n -> GroupedComponents]]]

PackageValidate(groupOrder) ==
    /\ pc = "validate"
    /\ out' = [pkg |-> out.pkg, err |-> ZarfPackageValidateGroups(out.pkg, groupOrder)]
    /\ pc' = "validated"
    /\ UNCHANGED <<ver, pkg, world, setVars, idx, findings, fatal, linted, result, calls, bst>>

NextPackageValidate == \E groupOrder \in GroupOrders : PackageValidate(groupOrder)

SpecPackageValidate == InitPackageValidate /\ [][NextPackageValidate]_vars

-----------------------------------------------------------------------------
(* SpecComponentValidate: ZarfComponent.Validate on the import of a          *)
(* component                                                                 *)

PkgValidateErrImportDefinition(name, reason) == <<"invalid imported definition", name, reason>>

ImportNeither == "neither a path nor a URL was provided"
ImportBoth == "both a path and a URL were provided"
ImportAbsolute == "path cannot be an absolute path"
ImportNotOCI == "URL is not a valid OCI URL"

(* filepath.IsAbs *)
IsAbs(path) == path # EmptyStr /\ path[1] = "/"

(* helpers.IsOCIURL: the scheme of the url is oci *)
IsOCIURL(url) == url # EmptyStr /\ url[1] = "oci://"

ZarfComponentValidateEach(c) ==
    LET path == c.import.path
        url == c.import.url
        E(reason) == <<PkgValidateErrImportDefinition(c.name, reason)>>
        a == errorsJoin(<<>>, IF path = EmptyStr /\ url = EmptyStr THEN E(ImportNeither) ELSE <<>>)
        b == errorsJoin(a, IF path # EmptyStr /\ url # EmptyStr THEN E(ImportBoth) ELSE <<>>)
        d == errorsJoin(b, IF path # EmptyStr /\ IsAbs(path) THEN E(ImportAbsolute) ELSE <<>>)
    IN errorsJoin(d, IF url # EmptyStr /\ ~IsOCIURL(url) THEN E(ImportNotOCI) ELSE <<>>)

ZarfComponentValidate(c) ==
    LET path == c.import.path
        url == c.import.url
        E(reason) == <<PkgValidateErrImportDefinition(c.name, reason)>>
        a == errorsJoin(<<>>, IF path = EmptyStr /\ url = EmptyStr THEN E(ImportNeither) ELSE <<>>)
        b == errorsJoin(a, IF path # EmptyStr /\ url # EmptyStr THEN E(ImportBoth) ELSE <<>>)
        d == errorsJoin(b, IF url = EmptyStr /\ path # EmptyStr /\ IsAbs(path)
                           THEN E(ImportAbsolute) ELSE <<>>)
    IN errorsJoin(d, IF url # EmptyStr /\ path = EmptyStr /\ ~IsOCIURL(url)
                     THEN E(ImportNotOCI) ELSE <<>>)

MaxImportLen == 3

ImportPaths == UNION {[1..n -> {"/", "..", "dir"}] : n \in 0..MaxImportLen}

ImportURLs == UNION {[1..n -> {"oci://", "https://", "host"}] : n \in 0..MaxImportLen}

InitComponentValidate ==
    /\ Idle
    /\ pc = "validateComponent"
    /\ findings = <<>>
    /\ calls = 0
    /\ out \in [component : [name : {<<"import">>}, import : [path : ImportPaths, url : ImportURLs]]]

ComponentValidate ==
    /\ pc = "validateComponent"
    /\ out' = [component |-> out.component, err |-> ZarfComponentValidate(out.component)]
    /\ pc' = "componentValidated"
    /\ UNCHANGED <<ver, pkg, world, setVars, idx, findings, fatal, linted, result, calls, bst>>

NextComponentValidate == ComponentValidate

SpecComponentValidate == InitComponentValidate /\ [][NextComponentValidate]_vars

-----------------------------------------------------------------------------
(* SpecActionValidate: ZarfComponentAction.Validate.  An action carries cmd, *)
(* wait (whether it is set, and which of its cluster and network are) and,   *)
(* for each of its setVariables, the error variable.Validate returns for it, *)
(* <<>> for nil.                                                             *)

PkgValidateErrActionCmdWait(cmd) == <<"action cannot be both a command and wait action", cmd>>
PkgValidateErrActionClusterNetwork ==
    <<"a single wait action must contain only one of cluster or network">>
ErrVariable == <<"invalid variable">>

(* the errors variable.Validate returned, joined; nil errors are dropped *)
RECURSIVE validateSetVariables(_, _)
validateSetVariables(setVariables, err) ==
    IF setVariables = <<>> THEN err
    ELSE validateSetVariables(Tail(setVariables),
            errorsJoin(err, IF Head(setVariables) = <<>> THEN <<>> ELSE <<Head(setVariables)>>))

ZarfComponentActionValidateNotBoth(action) ==
    LET a == validateSetVariables(action.setVariables, <<>>)
        b == errorsJoin(a, IF action.wait.set /\ action.cmd # EmptyStr
                           THEN <<PkgValidateErrActionCmdWait(action.cmd)>> ELSE <<>>)
    IN errorsJoin(b, IF action.wait.set /\ action.wait.cluster /\ action.wait.network
                     THEN <<PkgValidateErrActionClusterNetwork>> ELSE <<>>)

ZarfComponentActionValidate(action) ==
    LET a == validateSetVariables(action.setVariables, <<>>)
    IN IF ~action.wait.set THEN a
       ELSE LET b == errorsJoin(a, IF action.cmd # EmptyStr
                                   THEN <<PkgValidateErrActionCmdWait(action.cmd)>> ELSE <<>>)
                d == errorsJoin(b, IF action.wait.cluster /\ action.wait.network
                                   THEN <<PkgValidateErrActionClusterNetwork>> ELSE <<>>)
            IN errorsJoin(d, IF ~action.wait.cluster /\ ~action.wait.network
                             THEN <<PkgValidateErrActionClusterNetwork>> ELSE <<>>)

MaxVariables == 3

Actions ==
    [cmd : {EmptyStr, <<"ls">>, <<"true">>},
     wait : {[set |-> FALSE, cluster |-> FALSE, network |-> FALSE]}
            \cup [set : {TRUE}, cluster : BOOLEAN, network : BOOLEAN],
     setVariables : UNION {[1..n -> {<<>>, ErrVariable}] : n \in 0..MaxVariables}]

InitActionValidate ==
    /\ Idle
    /\ pc = "validateAction"
    /\ findings = <<>>
    /\ calls = 0
    /\ out \in [action : Actions]

ActionValidate ==
    /\ pc = "validateAction"
    /\ out' = [action |-> out.action, err |-> ZarfComponentActionValidate(out.action)]
    /\ pc' = "actionValidated"
    /\ UNCHANGED <<ver, pkg, world, setVars, idx, findings, fatal, linted, result, calls, bst>>

NextActionValidate == ActionValidate

SpecActionValidate == InitActionValidate /\ [][NextActionValidate]_vars

-----------------------------------------------------------------------------
(* Notions the claims about lintComponents share *)

EffectivePath(f) == IF f.packageRelPath = EmptyStr THEN <<".">> ELSE f.packageRelPath

EffectiveName(f) == IF f.packageName = EmptyStr THEN TopPackageName ELSE f.packageName

(* the chain NewImportChain builds for the top-level component at i *)
ChainOf(i) == NewImportChain(pkg.components[i], i - 1, pkg.name, GetArch(pkg.arch), Flavor, world)

IsCompatible(i) == CompatibleComponent(pkg.components[i], GetArch(pkg.arch), Flavor)

ChainFails(i) == IsCompatible(i) /\ ChainOf(i).status = "err"

HasTemplateMarker(str) ==
    Contains(str, ZarfPackageTemplatePrefix) \/ Contains(str, ZarfPackageVariablePrefix)

(* C1: when lintComponents returns, a top-level component whose import      *)
(* chain could not be built has not stopped the lint: no error is returned   *)
(* and every later compatible top-level component was linted.                *)
C1_ChainFailureDoesNotStopLint ==
    pc = "lintReturned" =>
        \A i \in 1..Len(pkg.components) :
            ChainFails(i) =>
                /\ fatal = EmptyStr
                /\ \A j \in (i + 1)..Len(pkg.components) : IsCompatible(j) => j \in linted

(* C2: when the import.path of top-level component i cannot be resolved,     *)
(* lintComponents returns no error; the findings hold a finding whose        *)
(* description is the resolution error, whose locator is                     *)
(* .components.[i].import.path and whose provenance path is ".", and after   *)
(* it a Warning finding for every unpinned image of the head component.      *)
C2_UnresolvedImportIsAFinding ==
    pc = "lintReturned" =>
        \A i \in 1..Len(pkg.components) :
            (/\ ChainFails(i)
             /\ Len(ChainOf(i).nodes) = 1
             /\ pkg.components[i].import.path # EmptyStr)
            => /\ fatal = EmptyStr
               /\ \E p \in 1..Len(findings) :
                    /\ findings[p].description = ChainOf(i).err
                    /\ findings[p].yqPath = ImportPathYqPath(i - 1)
                    /\ EffectivePath(findings[p]) = HeadLocation
                    /\ \A j \in 1..Len(pkg.components[i].images) :
                         LET image == pkg.components[i].images[j]
                         IN (ParseImageRef(image).ok /\ ParseImageRef(image).digest = EmptyStr)
                            => \E q \in (p + 1)..Len(findings) :
                                 /\ findings[q].item = image
                                 /\ findings[q].yqPath = ImagesYqPath(i - 1, j - 1)
                                 /\ findings[q].category = CategoryWarning

(* C3: building an import chain ends within as many resolutions as there     *)
(* are packages to import: no location occurs twice in a chain, and a chain  *)
(* whose last component imports a location already in the chain has failed   *)
(* with the circular-import error.                                           *)
C3_ChainBuildingTerminates ==
    (pc = "chain" /\ bst # <<>>) =>
        LET nodes == bst.nodes
            last == nodes[Len(nodes)].component
            target == IF last.import.path # EmptyStr THEN last.import.path ELSE last.import.url
        IN /\ \A j, k \in 1..Len(nodes) :
                 nodes[j].relativeToHead = nodes[k].relativeToHead => j = k
           /\ Len(nodes) <= Cardinality(DOMAIN world) + 1
           /\ (\E k \in 1..Len(nodes) : nodes[k].relativeToHead = target)
                 => (bst.status = "building" \/ (bst.status = "err" /\ bst.err = ErrCircular(target)))
           /\ bst.status = "ok" => target = EmptyStr

C3_Witness ==
    /\ pc = "chain"
    /\ bst # <<>>
    /\ bst.status = "err"
    /\ Len(bst.nodes) = 3
    /\ bst.err = ErrCircular(LocA)

(* C5: every finding the linter produced carries a severity that is Error    *)
(* or Warning.                                                               *)
C5_EveryFindingHasSeverity ==
    \A k \in 1..Len(findings) : findings[k].category \in {CategoryError, CategoryWarning}

(* C6: as long as the lint has returned no error, every image reference of  *)
(* a linted head component that fails to parse and holds no template marker  *)
(* has a finding of Error severity.                                          *)
C6_UnparseableImageIsAnError ==
    fatal = EmptyStr =>
        \A i \in linted :
            \A j \in 1..Len(pkg.components[i].images) :
                LET image == pkg.components[i].images[j]
                IN (~ParseImageRef(image).ok /\ ~HasTemplateMarker(image))
                   => \E k \in 1..Len(findings) :
                        /\ findings[k].item = image
                        /\ findings[k].yqPath = ImagesYqPath(i - 1, j - 1)
                        /\ findings[k].category = CategoryError

-----------------------------------------------------------------------------
(* C4: HasErrors() is true exactly when some recorded finding has Error      *)
(* severity; findings that are all Warnings give HasErrors() false.          *)
C4_HasErrorsIffErrorFinding ==
    pc = "validator" =>
        /\ HasErrors(findings) <=> (\E k \in 1..Len(findings) : findings[k].category = CategoryError)
        /\ (\A k \in 1..Len(findings) : findings[k].category = CategoryWarning)
               => ~HasErrors(findings)

C4_Witness ==
    /\ pc = "validator"
    /\ Len(findings) >= 2
    /\ HasErrors(findings)
    /\ \E k \in 1..Len(findings) : findings[k].category = CategoryWarning

(* C8: after any sequence of addWarning/addError calls the findings list     *)
(* holds no two findings equal in every field.                               *)
C8_NoDuplicateFindings ==
    pc = "validator" =>
        \A j, k \in 1..Len(findings) : findings[j] = findings[k] => j = k

C8_Witness ==
    /\ pc = "validator"
    /\ calls = 3
    /\ Len(findings) = 2

(* C9: an addWarning or addError call leaves every recorded finding in       *)
(* place: the old list is a prefix of the new one, which is at most one      *)
(* finding longer.                                                           *)
C9_AppendOnly ==
    [][pc = "validator" =>
        /\ Len(findings') \in {Len(findings), Len(findings) + 1}
        /\ SubSeq(findings', 1, Len(findings)) = findings]_vars

C9_Witness ==
    /\ pc = "validator"
    /\ calls = 3
    /\ Len(findings) = 3
    /\ findings[1].category = CategoryWarning
    /\ findings[2].category = CategoryError

(* C10: the map returned by groupFindingsByPath has one key per provenance   *)
(* path of a finding at or above the threshold (an empty path counted as     *)
(* "."), and under each key exactly those findings, in their original        *)
(* order, duplicates kept, with an empty package name replaced by the        *)
(* top-level package name.                                                   *)
C10_GroupingExact ==
    pc = "grouped" =>
        LET m == out.groups
            Kept == {k \in 1..Len(findings) : findings[k].category <= out.severity}
            At(p) == {k \in Kept : EffectivePath(findings[k]) = p}
            Rank(p, k) == Cardinality({j \in At(p) : j <= k})
        IN /\ DOMAIN m = {EffectivePath(findings[k]) : k \in Kept}
           /\ \A p \in DOMAIN m :
                 /\ Len(m[p]) = Cardinality(At(p))
                 /\ \A k \in At(p) :
                       m[p][Rank(p, k)] =
                           [findings[k] EXCEPT !.packageRelPath = p,
                                               !.packageName = EffectiveName(findings[k])]

C10_Witness ==
    /\ pc = "grouped"
    /\ out.severity = CategoryWarning
    /\ Len(findings) = 3
    /\ findings[1] = findings[3]
    /\ findings[1].packageRelPath = EmptyStr
    /\ findings[2].packageRelPath = <<"path">>
    /\ Cardinality(DOMAIN out.groups) = 2

-----------------------------------------------------------------------------
(* Reading a finding of the repo, image and file checks back: the list it   *)
(* is about, the index in that list, the chain node it came from             *)

ListKinds == <<"].repos.[", "].images.[", "].files.[">>

IsListFinding(f) == Len(f.yqPath) = 5 /\ \E r \in 1..3 : f.yqPath[3] = ListKinds[r]

KindRank(f) == CHOOSE r \in 1..3 : f.yqPath[3] = ListKinds[r]

ListIndex(f) == CHOOSE n \in 0..9 : Dec(n) = f.yqPath[4]

NodePos(f, nodes) == CHOOSE k \in 1..Len(nodes) : nodes[k].relativeToHead = f.packageRelPath

(* the findings a step appended to the list *)
Appended(old, new) == SubSeq(new, Len(old) + 1, Len(new))

(* C11: the findings one iteration of lintComponents appends for a linted    *)
(* top-level component are ordered by chain node from the head, within a     *)
(* node repos before images before files, within a list by index.            *)
C11_FindingsInOrder ==
    [][(pc = "lint" /\ idx' = idx + 1 /\ idx \in linted') =>
        LET nodes == ChainOf(idx).nodes
            new == Appended(findings, findings')
            Before(f, g) ==
                \/ NodePos(f, nodes) < NodePos(g, nodes)
                \/ /\ NodePos(f, nodes) = NodePos(g, nodes)
                   /\ \/ KindRank(f) < KindRank(g)
                      \/ KindRank(f) = KindRank(g) /\ ListIndex(f) < ListIndex(g)
        IN \A p, q \in 1..Len(new) :
             (p < q /\ IsListFinding(new[p]) /\ IsListFinding(new[q]))
                => /\ \E k \in 1..Len(nodes) : nodes[k].relativeToHead = new[p].packageRelPath
                   /\ \E k \in 1..Len(nodes) : nodes[k].relativeToHead = new[q].packageRelPath
                   /\ Before(new[p], new[q])]_vars

C11_Witness ==
    /\ pc = "lint"
    /\ ver = 1
    /\ linted = {1}
    /\ \E p, q, r \in 1..Len(findings) :
         /\ p < q /\ q < r
         /\ findings[p].yqPath = ImagesYqPath(0, 1) /\ findings[p].packageRelPath = HeadLocation
         /\ findings[q].yqPath = FilesYqPath(0, 0) /\ findings[q].packageRelPath = HeadLocation
         /\ findings[r].yqPath = ImagesYqPath(0, 0) /\ findings[r].packageRelPath = LocA

(* the strings of a node's component, as written and with the templates the *)
(* linter fills in (the package-template prefix alone, or both prefixes)     *)
NodeItems(node) ==
    LET Strs(c) == {ComponentStrings(c)[k] : k \in 1..Len(ComponentStrings(c))}
    IN Strs(node.component)
       \cup Strs(ReloadYamlTemplate(node.component,
                                    TemplateMapFor({ZarfPackageTemplatePrefix}, setVars)))
       \cup Strs(ReloadYamlTemplate(node.component,
                                    TemplateMapFor({ZarfPackageTemplatePrefix,
                                                    ZarfPackageVariablePrefix}, setVars)))

(* the finding that records a failure to build an import chain *)
IsChainError(f) ==
    \E i \in 1..Len(pkg.components) : ChainFails(i) /\ f.description = ChainOf(i).err

(* C12: while lintComponents runs, every finding produced by linting a chain *)
(* node carries that node's import location and originating package name,    *)
(* is about one of that node's strings and is located at that node's index;  *)
(* for the head node these are ".", the root package's name and the          *)
(* component's position in the package.                                      *)
C12_FindingsCarryProvenance ==
    (pc \in {"lint", "lintReturned"} /\ fatal = EmptyStr) =>
        \A k \in 1..Len(findings) :
            LET f == findings[k]
            IN ~IsChainError(f) =>
                 \E i \in linted : \E n \in 1..Len(ChainOf(i).nodes) :
                    LET node == ChainOf(i).nodes[n]
                    IN /\ f.packageRelPath = node.relativeToHead
                       /\ f.packageName = node.originalPackageName
                       /\ (f.item = EmptyStr \/ f.item \in NodeItems(node))
                       /\ (f.yqPath = EmptyStr \/ f.yqPath[2] = Dec(node.index))
                       /\ (n = 1 => /\ f.packageRelPath = HeadLocation
                                    /\ f.packageName = pkg.name
                                    /\ node.index = i - 1)

C12_Witness ==
    /\ pc = "lintReturned"
    /\ fatal = EmptyStr
    /\ ver = 1
    /\ \E p, q \in 1..Len(findings) :
         /\ findings[p].packageRelPath = HeadLocation
         /\ findings[p].packageName = pkg.name
         /\ findings[q].packageRelPath = LocA
         /\ findings[q].packageName = <<"pkg-a">>

(* C13: as long as the lint has returned no error, a linted top-level        *)
(* component whose import.path (import.url) holds a ###ZARF_PKG_TMPL_        *)
(* placeholder has a Warning finding whose item is that literal string and   *)
(* whose locator is .components.[i].import.path (.import.url), whatever      *)
(* values were set.                                                          *)
C13_TemplateInImportIsAWarning ==
    fatal = EmptyStr =>
        \A i \in linted :
            LET c == pkg.components[i]
            IN /\ Contains(c.import.path, ZarfPackageTemplatePrefix)
                    => \E k \in 1..Len(findings) :
                         /\ findings[k].item = c.import.path
                         /\ findings[k].yqPath = ImportPathYqPath(i - 1)
                         /\ findings[k].category = CategoryWarning
               /\ Contains(c.import.url, ZarfPackageTemplatePrefix)
                    => \E k \in 1..Len(findings) :
                         /\ findings[k].item = c.import.url
                         /\ findings[k].yqPath = ImportURLYqPath(i - 1)
                         /\ findings[k].category = CategoryWarning

(* C14: as long as the lint has returned no error, a linted top-level        *)
(* component whose import.path (import.url) holds a ###ZARF_PKG_VAR_         *)
(* placeholder has a Warning finding for it, as for a ###ZARF_PKG_TMPL_      *)
(* placeholder: item the literal string, locator the import field.           *)
C14_VariableInImportIsAWarning ==
    fatal = EmptyStr =>
        \A i \in linted :
            LET c == pkg.components[i]
            IN /\ Contains(c.import.path, ZarfPackageVariablePrefix)
                    => \E k \in 1..Len(findings) :
                         /\ findings[k].item = c.import.path
                         /\ findings[k].yqPath = ImportPathYqPath(i - 1)
                         /\ findings[k].category = CategoryWarning
               /\ Contains(c.import.url, ZarfPackageVariablePrefix)
                    => \E k \in 1..Len(findings) :
                         /\ findings[k].item = c.import.url
                         /\ findings[k].yqPath = ImportURLYqPath(i - 1)
                         /\ findings[k].category = CategoryWarning

(* the chain nodes the lint has walked so far *)
LintedNodes == UNION {{ChainOf(i).nodes[n] : n \in 1..Len(ChainOf(i).nodes)} : i \in linted}

(* f is the deprecation warning for key, raised for node *)
IsDeprecationFor(f, key, node) ==
    /\ f.description = PkgValidateTemplateDeprecation(key)
    /\ f.category = CategoryWarning
    /\ f.packageRelPath = node.relativeToHead
    /\ f.packageName = node.originalPackageName

(* the deprecation warnings are exactly those of the keys found with prefix *)
DeprecationsMatch(prefix) ==
    /\ \A node \in LintedNodes : \A key \in FindYamlTemplates(node.component, prefix) :
          \E k \in 1..Len(findings) : IsDeprecationFor(findings[k], key, node)
    /\ \A k \in 1..Len(findings) : \A key \in Keys :
          findings[k].description = PkgValidateTemplateDeprecation(key)
             => \E node \in LintedNodes :
                   /\ key \in FindYamlTemplates(node.component, prefix)
                   /\ IsDeprecationFor(findings[k], key, node)

(* C15 as claimed: as long as the lint has returned no error, there is a     *)
(* deprecation Warning for each placeholder key a linted node uses with the  *)
(* ###ZARF_PKG_TMPL_ prefix, and none for the ###ZARF_PKG_VAR_ prefix.       *)
C15_DeprecationForTemplatePrefix ==
    fatal = EmptyStr => DeprecationsMatch(ZarfPackageTemplatePrefix)

(* C15 amended: in the Validator iteration (fillComponentTemplate), as long  *)
(* as the lint has returned no error, there is a deprecation Warning for     *)
(* each placeholder key a linted node uses with the ###ZARF_PKG_VAR_ prefix, *)
(* carrying that node's provenance, and none for keys used with the          *)
(* ###ZARF_PKG_TMPL_ prefix.                                                 *)
C15_DeprecationForVariablePrefix ==
    (ver = 2 /\ fatal = EmptyStr) => DeprecationsMatch(ZarfPackageVariablePrefix)

C15_Witness ==
    /\ ver = 2
    /\ pc = "lintReturned"
    /\ fatal = EmptyStr
    /\ \E k \in 1..Len(findings) : findings[k].description = PkgValidateTemplateDeprecation("IMG")
    /\ \E i \in linted :
         /\ FindYamlTemplates(pkg.components[i], ZarfPackageTemplatePrefix) = {"PATH", "IMG"}
         /\ FindYamlTemplates(pkg.components[i], ZarfPackageVariablePrefix) = {}
    /\ \A k \in 1..Len(findings) : findings[k].description # PkgValidateTemplateDeprecation("PATH")

(* C16: isPinnedImage(image) is (the reference has a digest, no error) when  *)
(* the reference parses; (true, no error) when it does not parse and holds   *)
(* a template marker, and then checkForUnpinnedImages has no finding for     *)
(* it; (false, the parse error) when it does not parse otherwise.            *)
C16_IsPinnedImage ==
    pc = "imageChecked" =>
        LET ref == ParseImageRef(out.image)
            r == out.result
        IN /\ ref.ok => (r.pinned <=> ref.digest # EmptyStr) /\ r.err = EmptyStr
           /\ (~ref.ok /\ HasTemplateMarker(out.image))
                 => r.pinned /\ r.err = EmptyStr /\ findings = <<>>
           /\ (~ref.ok /\ ~HasTemplateMarker(out.image))
                 => ~r.pinned /\ r.err = InvalidReferenceFormat

C16_Witness ==
    /\ pc = "imageChecked"
    /\ out.image = <<"busybox", ":", ZarfPackageTemplatePrefix>>
    /\ out.result.pinned
    /\ findings = <<>>

(* C17: checkForUnpinnedRepos returns exactly one finding for each repo      *)
(* whose URL holds no "@": a Warning whose item is the URL and whose locator *)
(* is .components.[i].repos.[j], j the repo's index; and no finding for a    *)
(* repo whose URL holds "@", nor any other finding.                          *)
C17_UnpinnedRepos ==
    pc = "reposChecked" =>
        /\ \A j \in 1..Len(out.repos) :
             LET at == {k \in 1..Len(findings) : findings[k].yqPath = ReposYqPath(out.index, j - 1)}
             IN IF Contains(out.repos[j], "@")
                THEN at = {}
                ELSE /\ Cardinality(at) = 1
                     /\ \A k \in at : /\ findings[k].item = out.repos[j]
                                      /\ findings[k].category = CategoryWarning
        /\ \A k \in 1..Len(findings) :
             \E j \in 1..Len(out.repos) : findings[k].yqPath = ReposYqPath(out.index, j - 1)

C17_Witness ==
    /\ pc = "reposChecked"
    /\ out.repos = <<RepoUnpinned, RepoPinned, RepoUnpinned>>
    /\ out.index = 1
    /\ Len(findings) = 2

(* A field path read as names separated by non-word characters: the last    *)
(* position of the name starting at k, and the path with every name that is  *)
(* all digits put in brackets                                                *)
RECURSIVE NameEnd(_, _)
NameEnd(s, k) == IF k < Len(s) /\ IsWordChar(s[k + 1]) THEN NameEnd(s, k + 1) ELSE k

RECURSIVE BracketNumbers(_, _)
BracketNumbers(s, k) ==
    IF k > Len(s) THEN <<>>
    ELSE IF ~IsWordChar(s[k]) THEN <<s[k]>> \o BracketNumbers(s, k + 1)
    ELSE LET e == NameEnd(s, k)
             name == SubSeq(s, k, e)
         IN (IF \A j \in 1..Len(name) : IsDigitChar(name[j])
             THEN <<"[">> \o name \o <<"]">>
             ELSE name)
            \o BracketNumbers(s, e + 1)

(* C18: makeFieldPathYqCompat returns "(root)" for "(root)"; for any other   *)
(* field path it returns "." followed by the path in which every standalone  *)
(* all-digit name N is [N] and every name that is not all digits (c12, 1c)   *)
(* is as it was.                                                             *)
C18_MakeFieldPathYqCompat ==
    pc = "fieldDone" =>
        IF out.field = RootField
        THEN out.yqPath = RootField
        ELSE out.yqPath = <<".">> \o BracketNumbers(out.field, 1)

C18_Witness ==
    /\ pc = "fieldDone"
    /\ out.field = <<"c", "1", ".", "2">>
    /\ out.yqPath = <<".", "c", "1", ".", "[", "2", "]">>

(* C19: the schema validation step either returns the engine's error with    *)
(* no findings, or appends one finding per schema violation, in the order    *)
(* the engine returned them, each of Error severity, described by the        *)
(* violation and located at makeFieldPathYqCompat of its field path.         *)
C19_SchemaViolationsAreErrors ==
    [][(pc = "schema" /\ pc' = "done") =>
        \E outcome \in SchemaOutcomes :
            IF outcome.err # EmptyStr
            THEN fatal' = outcome.err /\ findings' = <<>>
            ELSE /\ fatal' = EmptyStr
                 /\ Len(findings') = Len(findings) + Len(outcome.errors)
                 /\ SubSeq(findings', 1, Len(findings)) = findings
                 /\ \A k \in 1..Len(outcome.errors) :
                      LET f == findings'[Len(findings) + k]
                      IN /\ f.yqPath = makeFieldPathYqCompat(outcome.errors[k].field)
                         /\ f.description = outcome.errors[k].description
                         /\ f.category = CategoryError]_vars

(* C20: CompatibleComponent(component, arch, flavor) returns true exactly    *)
(* when only.cluster.architecture is empty or equals arch and only.flavor is *)
(* empty or equals flavor, and it leaves the component, the target and all   *)
(* other state as they were.                                                 *)
C20_CompatibleComponent ==
    [][(pc = "compatible" /\ pc' = "compatibleReturned") =>
        /\ out'.compatible <=>
              /\ out.component.only.arch \in {EmptyStr, out.arch}
              /\ out.component.only.flavor \in {EmptyStr, out.flavor}
        /\ out'.component = out.component
        /\ out'.arch = out.arch
        /\ out'.flavor = out.flavor
        /\ UNCHANGED <<ver, pkg, world, setVars, idx, findings, fatal, linted, result, calls, bst>>]_vars

C20_Witness ==
    /\ pc = "compatibleReturned"
    /\ out.component.only.arch = <<"amd64">>
    /\ out.component.only.flavor = <<"vanilla">>
    /\ out.arch = <<"amd64">>
    /\ out.flavor = <<"chocolate">>
    /\ ~out.compatible

-----------------------------------------------------------------------------
(* the positions of the package's components that lintComponents entered, in *)
(* ascending order                                                           *)
LintedPositions ==
    SelectSeq([k \in 1..Len(pkg.components) |-> k], LAMBDA k : k \in linted)

(* C21: when Validate has linted a package and then composed it, the         *)
(* components of the composed package are exactly the top-level components   *)
(* that were linted: a component is linted if and only if it is in the       *)
(* composed package, both paths filtering by the same architecture and       *)
(* flavor.                                                                   *)
C21_LintAndComposeSelectTheSame ==
    (ver = 2 /\ pc \in {"schema", "done"} /\ out # <<>> /\ out.err = EmptyStr) =>
        /\ Len(out.pkg.components) = Len(LintedPositions)
        /\ \A j \in 1..Len(LintedPositions) :
              out.pkg.components[j].name = pkg.components[LintedPositions[j]].name
        /\ \A i \in 1..Len(pkg.components) :
              i \in linted <=> CompatibleComponent(pkg.components[i], GetArch(pkg.arch), Flavor)

C21_Witness ==
    /\ ver = 2
    /\ pc = "schema"
    /\ pkg.arch = EmptyStr
    /\ Len(pkg.components) = 2
    /\ pkg.components[1].only.arch = <<"arm64">>
    /\ pkg.components[2].only.arch = <<"amd64">>
    /\ linted = {2}
    /\ Len(out.pkg.components) = 1

-----------------------------------------------------------------------------
(* the positions of the components ComposeComponents keeps, ascending, and   *)
(* the chain it builds for the component at a position                       *)
ComposedPositions ==
    SelectSeq([k \in 1..Len(pkg.components) |-> k],
              LAMBDA k : CompatibleComponent(pkg.components[k], pkg.arch, out.flavor))

ComposedChain(i) ==
    NewImportChain(StripOnly(pkg.components[i]), i - 1, pkg.name, pkg.arch, out.flavor, world)

(* C23: when ComposeComponents succeeds, a component whose chain has two     *)
(* nodes with images [A] and [B] is composed into a component whose images   *)
(* hold both A and B, and hold the value just once when A equals B.          *)
C23_ComposeUnionsImages ==
    (pc = "composed" /\ out.err = EmptyStr) =>
        \A j \in 1..Len(ComposedPositions) :
            LET nodes == ComposedChain(ComposedPositions[j]).nodes
                images == out.pkg.components[j].images
            IN (Len(nodes) = 2 /\ Len(nodes[1].component.images) = 1
                               /\ Len(nodes[2].component.images) = 1) =>
                  LET A == nodes[1].component.images[1]
                      B == nodes[2].component.images[1]
                  IN /\ InSeq(images, A)
                     /\ InSeq(images, B)
                     /\ Len(images) = IF A = B THEN 1 ELSE 2

C23_Witness ==
    /\ pc = "composed"
    /\ out.err = EmptyStr
    /\ Len(pkg.components) = 2
    /\ Len(out.pkg.components) = 2
    /\ pkg.components[1].images = <<ImgPinned>>
    /\ pkg.components[2].images = <<ImgUnpinned>>
    /\ out.pkg.components[1].images = <<ImgPinned, ImgUnpinned>>
    /\ out.pkg.components[2].images = <<ImgUnpinned>>

-----------------------------------------------------------------------------
(* how often an error occurs in a joined error *)
Occurrences(errs, e) == Cardinality({k \in 1..Len(errs) : errs[k] = e})

(* C24: ZarfPackage.Validate returns an error for every package in which a   *)
(* required component is default or grouped, a group has exactly one member  *)
(* or a group has more than one default, and the joined error holds one      *)
(* error for each required-and-default component, one for each               *)
(* required-and-grouped component, one for each one-member group and at      *)
(* least one for each group with several defaults.                           *)
C24_PackageValidateReportsEach ==
    pc = "validated" =>
        LET cs == out.pkg.components
            Members(g) == {k \in 1..Len(cs) : cs[k].group = g}
            Defaults(g) == {k \in Members(g) : cs[k].default}
        IN /\ \A name \in {cs[k].name : k \in 1..Len(cs)} :
                /\ Occurrences(out.err, PkgValidateErrComponentReqDefault(name))
                     = Cardinality({k \in 1..Len(cs) :
                                      cs[k].name = name /\ cs[k].required /\ cs[k].default})
                /\ Occurrences(out.err, PkgValidateErrComponentReqGrouped(name))
                     = Cardinality({k \in 1..Len(cs) :
                                      cs[k].name = name /\ cs[k].required
                                                        /\ cs[k].group # EmptyStr})
           /\ \A g \in Groups :
                /\ Cardinality(Members(g)) = 1 =>
                     \E k \in Members(g) :
                        Occurrences(out.err, PkgValidateErrGroupOneComponent(g, cs[k].name)) = 1
                /\ Cardinality(Defaults(g)) > 1 =>
                     \E i, j \in Defaults(g) :
                        Occurrences(out.err,
                            PkgValidateErrGroupMultipleDefaults(g, cs[i].name, cs[j].name)) >= 1
           /\ (\/ \E k \in 1..Len(cs) : cs[k].required /\ (cs[k].default \/ cs[k].group # EmptyStr)
               \/ \E g \in Groups : Cardinality(Members(g)) = 1 \/ Cardinality(Defaults(g)) > 1)
              => out.err # <<>>

C24_Witness ==
    /\ pc = "validated"
    /\ Len(out.pkg.components) = 2
    /\ out.pkg.components[1] = [name |-> <<"a">>, required |-> TRUE, default |-> TRUE,
                                group |-> <<"g1">>]
    /\ out.pkg.components[2] = [name |-> <<"b">>, required |-> FALSE, default |-> FALSE,
                                group |-> <<"g2">>]
    /\ Len(out.err) = 4
    /\ out.err[3] = PkgValidateErrGroupOneComponent(<<"g2">>, <<"b">>)

(* C25: ZarfComponent.Validate returns nil exactly when one of import.path   *)
(* and import.url is set and the set one is good (a path that is not         *)
(* absolute, a url that is an OCI url); with both set it returns exactly the *)
(* error "both provided", with neither set exactly the error "neither        *)
(* provided".                                                                *)
C25_ComponentValidateImport ==
    pc = "componentValidated" =>
        LET path == out.component.import.path
            url == out.component.import.url
            name == out.component.name
        IN /\ out.err = <<>> <=>
                \/ (path # EmptyStr /\ url = EmptyStr /\ path[1] # "/")
                \/ (url # EmptyStr /\ path = EmptyStr /\ url[1] = "oci://")
           /\ (path # EmptyStr /\ url # EmptyStr) =>
                out.err = <<PkgValidateErrImportDefinition(name, ImportBoth)>>
           /\ (path = EmptyStr /\ url = EmptyStr) =>
                out.err = <<PkgValidateErrImportDefinition(name, ImportNeither)>>

C25_Witness ==
    /\ pc = "componentValidated"
    /\ out.component.import.path = <<"/", "dir">>
    /\ out.component.import.url = <<"https://", "host">>
    /\ Len(out.err) = 1

(* C26: ZarfComponentAction.Validate returns nil for an action with a wait   *)
(* only if exactly one of wait.cluster and wait.network is set and cmd is    *)
(* empty; it returns an error when the wait sets both, sets neither, or cmd  *)
(* is set too; and for an action without a wait it returns nothing but the   *)
(* errors of its setVariables.                                               *)
C26_ActionValidateWait ==
    pc = "actionValidated" =>
        LET action == out.action
            variableErrs == SelectSeq(action.setVariables, LAMBDA e : e # <<>>)
        IN IF ~action.wait.set
           THEN out.err = variableErrs
           ELSE LET one == action.wait.cluster # action.wait.network
                IN /\ out.err = <<>> => (one /\ action.cmd = EmptyStr)
                   /\ (~one \/ action.cmd # EmptyStr) => out.err # <<>>
                   /\ (one /\ action.cmd = EmptyStr) => out.err = variableErrs

C26_Witness ==
    /\ pc = "actionValidated"
    /\ out.action.wait = [set |-> TRUE, cluster |-> FALSE, network |-> FALSE]
    /\ out.action.cmd = EmptyStr
    /\ out.action.setVariables = <<>>
    /\ out.err = <<PkgValidateErrActionClusterNetwork>>

-----------------------------------------------------------------------------
(* f is a repo, image or file finding of the head node of the top-level     *)
(* component at position i                                                   *)
IsHeadListFinding(f, i) ==
    /\ IsListFinding(f)
    /\ f.yqPath[2] = Dec(i - 1)
    /\ EffectivePath(f) = HeadLocation

(* the import-placeholder check saw the untemplated import.path of the      *)
(* component at position i: a Warning for the literal placeholder exists     *)
ImportCheckedUntemplated(i) ==
    LET c == pkg.components[i]
    IN Contains(c.import.path, ZarfPackageTemplatePrefix)
          => \E k \in 1..Len(findings) :
                /\ findings[k].yqPath = ImportPathYqPath(i - 1)
                /\ findings[k].item = c.import.path
                /\ findings[k].category = CategoryWarning

(* the image check saw the substituted images of the component at position  *)
(* i: an image finding names the image with the set values filled in for     *)
(* its ###ZARF_PKG_TMPL_ placeholders, and there is one for an image that    *)
(* is unpinned once filled in                                                *)
ImagesCheckedSubstituted(i) ==
    LET c == pkg.components[i]
        templateMap == TemplateMapFor({ZarfPackageTemplatePrefix}, setVars)
    IN \A j \in {n \in 1..Len(c.images) : ~Contains(c.images[n], ZarfPackageVariablePrefix)} :
          LET filled == Substitute(c.images[j], templateMap)
          IN /\ \A k \in 1..Len(findings) :
                   (IsHeadListFinding(findings[k], i)
                      /\ findings[k].yqPath = ImagesYqPath(i - 1, j - 1))
                   => findings[k].item = filled
             /\ (filled # c.images[j] /\ ~HasTemplateMarker(filled)
                                      /\ ~Contains(filled, "@"))
                   => \E k \in 1..Len(findings) :
                         /\ findings[k].yqPath = ImagesYqPath(i - 1, j - 1)
                         /\ findings[k].item = filled

(* C28: as long as the lint has returned no error, for the head node of      *)
(* every linted top-level component the import-placeholder check ran first   *)
(* and on the untemplated node, and the repo, image and file checks ran      *)
(* after it on the node with the set values substituted: the Warning for a   *)
(* placeholder in import.path is there whether or not a value was supplied   *)
(* for it, the image findings name substituted images, and the import        *)
(* finding comes before the node's repo, image and file findings.            *)
C28_ImportCheckThenSubstitutionThenChecks ==
    fatal = EmptyStr =>
        \A i \in linted :
            /\ ImportCheckedUntemplated(i)
            /\ ImagesCheckedSubstituted(i)
            /\ \A k1, k2 \in 1..Len(findings) :
                  (findings[k1].yqPath = ImportPathYqPath(i - 1)
                     /\ IsHeadListFinding(findings[k2], i)) => k1 < k2

(* C27: when ComposeComponents succeeds, every component of the returned     *)
(* package has an empty only.cluster.architecture and an empty only.flavor,  *)
(* and the returned components are the compatible components of the input,  *)
(* one for each, in the order of the input.                                  *)
C27_ComposedComponentsAreStripped ==
    (pc = "composed" /\ out.err = EmptyStr) =>
        /\ Len(out.pkg.components) = Len(ComposedPositions)
        /\ \A j \in 1..Len(out.pkg.components) :
              LET composed == out.pkg.components[j]
                  input == pkg.components[ComposedPositions[j]]
              IN /\ composed.only.arch = EmptyStr
                 /\ composed.only.flavor = EmptyStr
                 /\ composed.name = input.name
                 /\ SubSeq(composed.images, 1, Len(input.images)) = input.images

C27_Witness ==
    /\ pc = "composed"
    /\ out.err = EmptyStr
    /\ out.flavor = <<"other">>
    /\ pkg.arch = <<"arm64">>
    /\ Len(pkg.components) = 2
    /\ pkg.components[1].only = [arch |-> <<"amd64">>, flavor |-> EmptyStr]
    /\ pkg.components[2].only = [arch |-> <<"arm64">>, flavor |-> <<"other">>]
    /\ Len(out.pkg.components) = 1
    /\ out.pkg.components[1].name = <<"armother">>

(* C29: for the findings a Validator holds, IsSuccess is true exactly when   *)
(* HasErrors is false.                                                       *)
C29_IsSuccessIffNoErrors ==
    pc = "validator" => (IsSuccess(findings) <=> ~HasErrors(findings))

C29_Witness ==
    /\ pc = "validator"
    /\ Len(findings) = 2
    /\ \A k \in 1..Len(findings) : findings[k].category = CategoryWarning
    /\ IsSuccess(findings)

====
